---- MODULE Spec2Model ----
(***************************************************************************)
(* Pit stop strategy engine of src/src/models/track_strategy.py:           *)
(* TrackStrategyOptimizer (construction, update_characteristics,           *)
(* generate_strategy and its helpers) over the class-level tables          *)
(* TRACK_CONFIGS and TIRE_COMPOUNDS.                                       *)
(*                                                                         *)
(* Python floats are modelled as exact rationals <<numerator, denominator>>*)
(* in lowest terms with a positive denominator; Python ints that meet      *)
(* floats in arithmetic are rationals with denominator 1.  An absent dict  *)
(* key or a None is the empty tuple <<>>.                                  *)
(***************************************************************************)
EXTENDS Integers, Sequences, FiniteSets, TLC

VARIABLES
  optimizer,       \* the TrackStrategyOptimizer instance (or none constructed yet)
  TIRE_COMPOUNDS,  \* class attribute: one dict per compound, shared by every call
  last,            \* the last operation, its arguments and its outcome
  updates,         \* number of update_characteristics calls made by the caller
  calls,           \* number of generate_strategy calls made by the caller
  remembered,      \* first generate_strategy call since the characteristics last changed
  peer,            \* a second TrackStrategyOptimizer instance of the same process
  probe,           \* a direct application of one of the private helpers
  session,         \* the session data FastF1DataLoader.load_session gave the caller
  prompt,          \* where the interactive loop get_track_details stands
  archive,         \* the seasons fastf1 holds of each circuit
  historical_data, \* PointsOptimizer.historical_data
  answer,          \* the last call of get_points_optimized_strategy and what it gave
  points_calls     \* calls of get_points_optimized_strategy so far

vars == <<optimizer, TIRE_COMPOUNDS, last, updates, calls, remembered, peer, probe, session,
          prompt, archive, historical_data, answer, points_calls>>

(* Bounds of the exploration *)
MaxUpdates == 1
MaxCalls == 1
MaxRepeats == 2
MaxSeasons == 2
MaxPointsCalls == 2

Absent == <<>>

---------------------------------------------------------------------------
(* Exact rational arithmetic standing for float arithmetic *)

Abs(x) == IF x < 0 THEN -x ELSE x

RECURSIVE GCD(_, _)
GCD(a, b) == IF b = 0 THEN a ELSE GCD(b, a % b)

Rat(n, d) ==
  LET g == GCD(Abs(n), Abs(d))
      s == IF d < 0 THEN -1 ELSE 1
  IN  <<(s * n) \div g, (s * d) \div g>>

Milli(n) == Rat(n, 1000)
FromInt(i) == <<i, 1>>
Mul(a, b) == Rat(a[1] * b[1], a[2] * b[2])
Add(a, b) == Rat(a[1] * b[2] + b[1] * a[2], a[2] * b[2])
Sub(a, b) == Rat(a[1] * b[2] - b[1] * a[2], a[2] * b[2])
Lt(a, b) == a[1] * b[2] < b[1] * a[2]
Le(a, b) == a[1] * b[2] <= b[1] * a[2]
Gt(a, b) == Lt(b, a)
Ge(a, b) == Le(b, a)
RMin(a, b) == IF Lt(b, a) THEN b ELSE a
RMax(a, b) == IF Gt(b, a) THEN b ELSE a
Max(a, b) == IF b > a THEN b ELSE a
Min(a, b) == IF b < a THEN b ELSE a

---------------------------------------------------------------------------
(* Class-level tables *)

TrackKeys ==
  {"australian_gp", "chinese_gp", "japanese_gp", "bahrain_gp",
   "saudi_arabia_gp", "miami_gp", "emilia_romagna_gp", "monaco_gp",
   "spanish_gp", "canadian_gp", "austrian_gp", "british_gp",
   "belgian_gp", "hungarian_gp", "dutch_gp", "italian_gp",
   "azerbaijan_gp", "singapore_gp", "united_states_gp", "mexican_gp",
   "brazilian_gp", "las_vegas_gp", "qatar_gp", "abu_dhabi_gp"}

TrackConfig(type, laps, pit_loss, stops, difficult, deg, evo, sc, traffic, margin, length) ==
  [track_length |-> length, track_type |-> type, race_laps |-> laps,
   pit_loss_time |-> pit_loss, tire_compounds |-> <<"soft", "medium", "hard">>,
   max_pit_stops |-> stops, difficult_overtaking |-> difficult,
   tire_degradation |-> deg, track_evolution |-> evo,
   safety_car_probability |-> sc, traffic_impact |-> traffic,
   pit_window_margin |-> margin]

TRACK_CONFIGS ==
  "australian_gp"      :> TrackConfig("standard", 58, Milli(21500), 2, FALSE, Milli(1000), Milli(13), Milli(300), Milli(500), 4, Milli(5278)) @@
  "chinese_gp"         :> TrackConfig("technical", 56, Milli(21500), 3, FALSE, Milli(1280), Milli(13), Milli(350), Milli(500), 4, Milli(5451)) @@
  "japanese_gp"        :> TrackConfig("technical", 53, Milli(21500), 2, TRUE, Milli(1200), Milli(14), Milli(400), Milli(600), 4, Milli(5807)) @@
  "bahrain_gp"         :> TrackConfig("standard", 57, Milli(21000), 3, FALSE, Milli(1250), Milli(15), Milli(250), Milli(400), 4, Milli(5412)) @@
  "saudi_arabia_gp"    :> TrackConfig("street", 50, Milli(22500), 2, TRUE, Milli(1150), Milli(16), Milli(650), Milli(600), 4, Milli(6174)) @@
  "miami_gp"           :> TrackConfig("standard", 57, Milli(21500), 2, FALSE, Milli(1180), Milli(17), Milli(450), Milli(500), 4, Milli(5412)) @@
  "emilia_romagna_gp"  :> TrackConfig("technical", 63, Milli(22000), 2, TRUE, Milli(1200), Milli(12), Milli(500), Milli(700), 4, Milli(4909)) @@
  "monaco_gp"          :> TrackConfig("street", 78, Milli(23500), 1, TRUE, Milli(800), Milli(3), Milli(600), Milli(800), 2, Milli(3337)) @@
  "spanish_gp"         :> TrackConfig("technical", 66, Milli(21500), 3, TRUE, Milli(1220), Milli(12), Milli(200), Milli(700), 4, Milli(4675)) @@
  "canadian_gp"        :> TrackConfig("street", 70, Milli(22000), 2, FALSE, Milli(1200), Milli(14), Milli(500), Milli(600), 4, Milli(4361)) @@
  "austrian_gp"        :> TrackConfig("standard", 71, Milli(20500), 2, FALSE, Milli(1150), Milli(11), Milli(250), Milli(300), 4, Milli(4318)) @@
  "british_gp"         :> TrackConfig("high_speed", 52, Milli(22000), 2, FALSE, Milli(1250), Milli(15), Milli(350), Milli(400), 5, Milli(5891)) @@
  "belgian_gp"         :> TrackConfig("high_speed", 44, Milli(18500), 3, FALSE, Milli(1200), Milli(12), Milli(400), Milli(400), 5, Milli(7004)) @@
  "hungarian_gp"       :> TrackConfig("technical", 70, Milli(22000), 2, TRUE, Milli(1200), Milli(15), Milli(300), Milli(800), 4, Milli(4381)) @@
  "dutch_gp"           :> TrackConfig("technical", 72, Milli(22000), 2, TRUE, Milli(1250), Milli(13), Milli(400), Milli(700), 4, Milli(4259)) @@
  "italian_gp"         :> TrackConfig("high_speed", 53, Milli(21000), 2, FALSE, Milli(1300), Milli(8), Milli(300), Milli(300), 5, Milli(5793)) @@
  "azerbaijan_gp"      :> TrackConfig("street", 51, Milli(22500), 2, FALSE, Milli(1000), Milli(17), Milli(700), Milli(750), 3, Milli(6003)) @@
  "singapore_gp"       :> TrackConfig("street", 61, Milli(23000), 2, TRUE, Milli(1100), Milli(18), Milli(800), Milli(900), 3, Milli(4940)) @@
  "united_states_gp"   :> TrackConfig("standard", 56, Milli(21500), 2, FALSE, Milli(1150), Milli(14), Milli(350), Milli(500), 4, Milli(5513)) @@
  "mexican_gp"         :> TrackConfig("standard", 71, Milli(22000), 2, FALSE, Milli(1100), Milli(12), Milli(300), Milli(600), 4, Milli(4304)) @@
  "brazilian_gp"       :> TrackConfig("technical", 71, Milli(21500), 2, FALSE, Milli(1180), Milli(16), Milli(450), Milli(500), 4, Milli(4309)) @@
  "las_vegas_gp"       :> TrackConfig("street", 50, Milli(22000), 2, FALSE, Milli(1100), Milli(20), Milli(550), Milli(400), 4, Milli(6201)) @@
  "qatar_gp"           :> TrackConfig("high_speed", 57, Milli(21500), 3, FALSE, Milli(1350), Milli(15), Milli(300), Milli(500), 4, Milli(5419)) @@
  "abu_dhabi_gp"       :> TrackConfig("technical", 55, Milli(22000), 2, FALSE, Milli(1050), Milli(10), Milli(250), Milli(600), 4, Milli(5281))

(* str.lower() on the identifiers that are passed to the constructor and *)
(* on the display names of the tracks                                     *)
lower(s) ==
  CASE s = "MONACO_GP" -> "monaco_gp"
    [] s = "Monaco" -> "monaco"
    [] s = "Australian Grand Prix" -> "australian grand prix"
    [] s = "Chinese Grand Prix" -> "chinese grand prix"
    [] s = "Japanese Grand Prix" -> "japanese grand prix"
    [] s = "Bahrain Grand Prix" -> "bahrain grand prix"
    [] s = "Saudi Arabian Grand Prix" -> "saudi arabian grand prix"
    [] s = "Miami Grand Prix" -> "miami grand prix"
    [] s = "Emilia Romagna Grand Prix" -> "emilia romagna grand prix"
    [] s = "Monaco Grand Prix" -> "monaco grand prix"
    [] s = "Spanish Grand Prix" -> "spanish grand prix"
    [] s = "Canadian Grand Prix" -> "canadian grand prix"
    [] s = "Austrian Grand Prix" -> "austrian grand prix"
    [] s = "British Grand Prix" -> "british grand prix"
    [] s = "Belgian Grand Prix" -> "belgian grand prix"
    [] s = "Hungarian Grand Prix" -> "hungarian grand prix"
    [] s = "Dutch Grand Prix" -> "dutch grand prix"
    [] s = "Italian Grand Prix" -> "italian grand prix"
    [] s = "Azerbaijan Grand Prix" -> "azerbaijan grand prix"
    [] s = "Singapore Grand Prix" -> "singapore grand prix"
    [] s = "United States Grand Prix" -> "united states grand prix"
    [] s = "Mexican Grand Prix" -> "mexican grand prix"
    [] s = "Brazilian Grand Prix" -> "brazilian grand prix"
    [] s = "Las Vegas Grand Prix" -> "las vegas grand prix"
    [] s = "Qatar Grand Prix" -> "qatar grand prix"
    [] s = "Abu Dhabi Grand Prix" -> "abu dhabi grand prix"
    [] OTHER -> s

Compound(min, max, pace, window, tracks, phase) ==
  [min_life |-> FromInt(min), max_life |-> FromInt(max), pace_advantage |-> pace,
   optimal_window |-> window, high_deg_tracks |-> tracks,
   preferred_phase |-> phase, remaining_life |-> Absent]

\* variant: the intermediate tyre filed under its long name
TIRE_COMPOUNDS_RENAMED ==
  "soft"   :> Compound(10, 20, Milli(-500), <<1, 15>>, {"singapore_gp", "spanish_gp"}, "early") @@
  "medium" :> Compound(20, 35, Milli(0), <<5, 25>>, {"silverstone", "suzuka"}, "middle") @@
  "hard"   :> Compound(30, 45, Milli(0), <<10, 40>>, {"spain", "france"}, "start") @@
  "intermediate" :> Compound(15, 30, Milli(0), <<0, 30>>, {}, "any") @@
  "wet"    :> Compound(20, 40, Milli(0), <<0, 40>>, {}, "any")

TIRE_COMPOUNDS_DEFAULT ==
  "soft"   :> Compound(10, 20, Milli(-500), <<1, 15>>, {"singapore_gp", "spanish_gp"}, "early") @@
  "medium" :> Compound(20, 35, Milli(0), <<5, 25>>, {"silverstone", "suzuka"}, "middle") @@
  "hard"   :> Compound(30, 45, Milli(0), <<10, 40>>, {"spain", "france"}, "start") @@
  "inter"  :> Compound(15, 30, Milli(0), <<0, 30>>, {}, "any") @@
  "wet"    :> Compound(20, 40, Milli(0), <<0, 40>>, {}, "any")

(* TrackCharacteristics(): the dataclass defaults *)
TrackCharacteristics ==
  [tire_degradation |-> Milli(1000), track_evolution |-> Milli(5),
   safety_car_probability |-> Milli(300), traffic_impact |-> Milli(500),
   pit_window_margin |-> 3, overtaking_difficulty |-> Milli(500),
   track_length |-> Milli(5000), track_type |-> "standard",
   pit_loss_time |-> Milli(20000), race_laps |-> 0, max_stops |-> 3,
   tire_compounds |-> <<"soft", "medium", "hard">>]

(* load_track_config: the characteristics of a catalog entry *)
load_track_config(track_name) ==
  LET config == TRACK_CONFIGS[track_name]
  IN  [tire_degradation |-> config.tire_degradation,
       track_evolution |-> config.track_evolution,
       safety_car_probability |-> config.safety_car_probability,
       traffic_impact |-> config.traffic_impact,
       pit_window_margin |-> config.pit_window_margin,
       overtaking_difficulty |-> IF config.difficult_overtaking THEN Milli(800) ELSE Milli(400),
       track_length |-> config.track_length,
       track_type |-> config.track_type,
       pit_loss_time |-> config.pit_loss_time,
       race_laps |-> config.race_laps,
       max_stops |-> config.max_pit_stops,
       tire_compounds |-> config.tire_compounds]

---------------------------------------------------------------------------
(* update_characteristics                                                  *)
(* tire_data is the sequence of the dict's items in iteration order; an    *)
(* item is [key, kind, degradation, avg_tire_life, fastest_lap] where kind *)
(* is the Python type of the value ("dict", "list" or "number") and the    *)
(* three fields are Absent when the value has no such key.  weather_data   *)
(* is [rainfall, track_temp, weather_stability, other_keys], each of the   *)
(* first three Absent or a one-element tuple holding the value.            *)

TireItem(key, kind, degradation, avg_tire_life, fastest_lap) ==
  [key |-> key, kind |-> kind, degradation |-> degradation,
   avg_tire_life |-> avg_tire_life, fastest_lap |-> fastest_lap]

\* 'k' in data, for a value that is a dict or a list
Contains(item, k) == item.kind = "dict" /\ item[k] # Absent

\* data.get(k, default)
Get(item, k, default) == IF item[k] # Absent THEN item[k] ELSE default

RECURSIVE SumOf(_)
SumOf(s) == IF s = <<>> THEN FromInt(0) ELSE Add(Head(s), SumOf(Tail(s)))

RECURSIVE MinOf(_)
MinOf(s) == IF Len(s) = 1 THEN s[1] ELSE RMin(s[1], MinOf(Tail(s)))

Field(items, k) == [i \in 1..Len(items) |-> items[i][k]]

\* [d[k] for d in tire_data.values() if k in d]
SelectField(tire_data, k) ==
  Field(SelectSeq(tire_data, LAMBDA item : Contains(item, k)), k)

\* the dict passed to TIRE_COMPOUNDS[compound].update; fastest holds the
\* fastest_lap of every record that has one
refined_compound(entry, data, fastest) ==
  [entry EXCEPT
     !.min_life = RMax(FromInt(5), Mul(Get(data, "avg_tire_life", FromInt(15)), Milli(700))),
     !.max_life = Mul(Get(data, "avg_tire_life", FromInt(30)), Milli(1200)),
     !.pace_advantage = Sub(Get(data, "fastest_lap", FromInt(0)), MinOf(fastest))]

\* the loop "for compound, data in tire_data.items()" from item i on: a
\* value that is no dict has no get, and min() of no fastest_lap raises
RECURSIVE update_compounds(_, _, _, _)
update_compounds(table, tire_data, fastest, i) ==
  IF i > Len(tire_data) THEN [raised |-> FALSE, error |-> "", table |-> table]
  ELSE IF tire_data[i].key \notin DOMAIN table
    THEN update_compounds(table, tire_data, fastest, i + 1)
  ELSE IF tire_data[i].kind # "dict"
    THEN [raised |-> TRUE, error |-> "AttributeError", table |-> table]
  ELSE IF fastest = <<>>
    THEN [raised |-> TRUE, error |-> "ValueError", table |-> table]
  ELSE update_compounds(
         [table EXCEPT ![tire_data[i].key] = refined_compound(@, tire_data[i], fastest)],
         tire_data, fastest, i + 1)

\* 70% of the mean observed degradation, 30% of the current value
blend_degradation(tc, compounds_deg) ==
  IF compounds_deg = <<>> THEN tc
  ELSE [tc EXCEPT !.tire_degradation =
          Add(Mul(Milli(700), Mul(SumOf(compounds_deg), Rat(1, Len(compounds_deg)))),
              Mul(Milli(300), @))]

\* what the tire block leaves: the blended characteristics stay even when
\* the compound loop raises
tire_outcome(tc, loop) ==
  [raised |-> loop.raised, error |-> loop.error, tc |-> tc, table |-> loop.table]

\* the block "if tire_data:"
update_from_tire_data(tc, table, tire_data) ==
  IF tire_data = <<>>
    THEN [raised |-> FALSE, error |-> "", tc |-> tc, table |-> table]
  ELSE IF \E i \in 1..Len(tire_data) : tire_data[i].kind = "number"
    THEN [raised |-> TRUE, error |-> "TypeError", tc |-> tc, table |-> table]
  ELSE tire_outcome(blend_degradation(tc, SelectField(tire_data, "degradation")),
                    update_compounds(table, tire_data, SelectField(tire_data, "fastest_lap"), 1))

WeatherData(rainfall, track_temp, weather_stability, other_keys) ==
  [rainfall |-> rainfall, track_temp |-> track_temp,
   weather_stability |-> weather_stability, other_keys |-> other_keys]

NoWeather == WeatherData(Absent, Absent, Absent, FALSE)

\* weather_data.get('rainfall', False)
rainfall(weather_data) == weather_data.rainfall = <<TRUE>>

\* weather_data.get('track_temp', 25)
track_temp(weather_data) ==
  IF weather_data.track_temp # Absent THEN weather_data.track_temp[1] ELSE FromInt(25)

rain_factor(p, weather_data) == IF rainfall(weather_data) THEN Mul(p, Milli(1500)) ELSE p

heat_factor(p, weather_data) ==
  IF Gt(track_temp(weather_data), FromInt(40)) THEN Mul(p, Milli(1200)) ELSE p

\* variant: the factors of street and high_speed circuits are exchanged
track_type_factor_exchanged(p, track_type) ==
  IF track_type = "street" THEN Mul(p, Milli(1100))
  ELSE IF track_type = "high_speed" THEN Mul(p, Milli(1300))
  ELSE p

track_type_factor(p, track_type) ==
  IF track_type = "street" THEN Mul(p, Milli(1300))
  ELSE IF track_type = "high_speed" THEN Mul(p, Milli(1100))
  ELSE p

\* the block "if weather_data:"
update_from_weather_data(tc, weather_data) ==
  IF weather_data = NoWeather THEN tc
  ELSE [tc EXCEPT
          !.safety_car_probability =
             RMin(track_type_factor(heat_factor(rain_factor(@, weather_data), weather_data),
                                    tc.track_type),
                  FromInt(1)),
          !.track_evolution =
             IF weather_data.weather_stability # Absent
               THEN Mul(@, weather_data.weather_stability[1]) ELSE @,
          !.traffic_impact = IF rainfall(weather_data) THEN Mul(@, Milli(1200)) ELSE @]

\* variant: the weather block runs whatever the tire block did
after_tire_data_regardless(tire, weather_data) ==
  [raised |-> tire.raised, error |-> tire.error,
   tc |-> update_from_weather_data(tire.tc, weather_data),
   table |-> tire.table]

\* the weather block runs only when the tire block has not raised
after_tire_data(tire, weather_data) ==
  IF tire.raised THEN tire
  ELSE [raised |-> FALSE, error |-> "",
        tc |-> update_from_weather_data(tire.tc, weather_data),
        table |-> tire.table]

update_characteristics(tc, table, tire_data, weather_data) ==
  after_tire_data(update_from_tire_data(tc, table, tire_data), weather_data)

---------------------------------------------------------------------------
(* generate_strategy and its helpers *)

\* "if current_compound:" - None and the empty string are both falsy
NoCompound == ""

\* variant: the stop is added while the tyre still covers 70% of the laps left
tire_life_adjust_fresh(table, base_stops, remaining_laps, current_compound, tire_age) ==
  IF /\ current_compound # NoCompound
     /\ tire_age # 0
     /\ Gt(Sub(table[current_compound].max_life, FromInt(tire_age)),
           Mul(FromInt(remaining_laps), Milli(700)))
    THEN base_stops + 1
    ELSE base_stops

\* one more stop when the tyre's remaining life is under 70% of the laps left
tire_life_adjust(table, base_stops, remaining_laps, current_compound, tire_age) ==
  IF /\ current_compound # NoCompound
     /\ tire_age # 0
     /\ Lt(Sub(table[current_compound].max_life, FromInt(tire_age)),
           Mul(FromInt(remaining_laps), Milli(700)))
    THEN base_stops + 1
    ELSE base_stops

track_evolution_adjust(base_stops, track_evolution) ==
  IF Gt(track_evolution, Milli(12)) THEN base_stops + 1
  ELSE IF Lt(track_evolution, Milli(8)) THEN Max(0, base_stops - 1)
  ELSE base_stops

\* variant: a probability of exactly 0.4 already adds a stop
safety_car_adjust_inclusive(base_stops, safety_car_prob) ==
  IF Ge(safety_car_prob, Milli(400)) THEN base_stops + 1
  ELSE IF Lt(safety_car_prob, Milli(200)) THEN Max(0, base_stops - 1)
  ELSE base_stops

safety_car_adjust(base_stops, safety_car_prob) ==
  IF Gt(safety_car_prob, Milli(400)) THEN base_stops + 1
  ELSE IF Lt(safety_car_prob, Milli(200)) THEN Max(0, base_stops - 1)
  ELSE base_stops

\* remaining_laps // 20, then the tyre, evolution and safety car adjustments
_calculate_optimal_stops(table, remaining_laps, current_compound, tire_age, track_evolution, safety_car_prob) ==
  safety_car_adjust(
    track_evolution_adjust(
      tire_life_adjust(table, remaining_laps \div 20, remaining_laps, current_compound, tire_age),
      track_evolution),
    safety_car_prob)

traffic_adjust(base_stops, traffic_impact) ==
  IF Gt(traffic_impact, Milli(600)) THEN base_stops + 1
  ELSE IF Lt(traffic_impact, Milli(400)) THEN Max(0, base_stops - 1)
  ELSE base_stops

overtaking_adjust(base_stops, overtaking_difficulty) ==
  IF Gt(overtaking_difficulty, Milli(700)) THEN base_stops + 1
  ELSE IF Lt(overtaking_difficulty, Milli(500)) THEN Max(0, base_stops - 1)
  ELSE base_stops

position_adjust(base_stops, current_position) ==
  IF current_position > 10 THEN base_stops + 1
  ELSE IF current_position < 5 THEN Max(0, base_stops - 1)
  ELSE base_stops

\* variant: the overtaking rule runs before the traffic rule
_adjust_strategy_overtaking_first(base_stops, current_position, traffic_impact, overtaking_difficulty) ==
  position_adjust(
    traffic_adjust(overtaking_adjust(base_stops, overtaking_difficulty), traffic_impact),
    current_position)

_adjust_strategy_for_position(base_stops, current_position, traffic_impact, overtaking_difficulty) ==
  position_adjust(
    overtaking_adjust(traffic_adjust(base_stops, traffic_impact), overtaking_difficulty),
    current_position)

_recommend_compound(tc, stop, total_stops, remaining_laps) ==
  IF stop = total_stops - 1
    THEN IF remaining_laps <= 15 \/ tc.track_type = "street" THEN "soft" ELSE "medium"
    ELSE "hard"

\* variant: the margin is applied the wrong way round
pit_window_swapped_margin(tc, remaining_laps, num_stops, stop) ==
  LET stint_length == remaining_laps \div (num_stops + 1)
      optimal_lap == Min(tc.race_laps - 2, stint_length * (stop + 1))
      margin == IF tc.track_type = "street" THEN 3 ELSE 5
  IN  [stop_number |-> stop + 1,
       window |-> [start |-> Max(stint_length * stop, optimal_lap + margin),
                   optimal |-> optimal_lap,
                   end |-> Min(tc.race_laps - 2, optimal_lap - margin)],
       compound |-> _recommend_compound(tc, stop, num_stops, remaining_laps)]

\* variant: the margin is the catalog's pit_window_margin
pit_window_catalog_margin(tc, remaining_laps, num_stops, stop) ==
  LET stint_length == remaining_laps \div (num_stops + 1)
      optimal_lap == Min(tc.race_laps - 2, stint_length * (stop + 1))
      margin == tc.pit_window_margin
  IN  [stop_number |-> stop + 1,
       window |-> [start |-> Max(stint_length * stop, optimal_lap - margin),
                   optimal |-> optimal_lap,
                   end |-> Min(tc.race_laps - 2, optimal_lap + margin)],
       compound |-> _recommend_compound(tc, stop, num_stops, remaining_laps)]

\* the dict built for stop number stop + 1 (stop counts from 0)
pit_window(tc, remaining_laps, num_stops, stop) ==
  LET stint_length == remaining_laps \div (num_stops + 1)
      optimal_lap == Min(tc.race_laps - 2, stint_length * (stop + 1))
      margin == IF tc.track_type = "street" THEN 3 ELSE 5
  IN  [stop_number |-> stop + 1,
       window |-> [start |-> Max(stint_length * stop, optimal_lap - margin),
                   optimal |-> optimal_lap,
                   end |-> Min(tc.race_laps - 2, optimal_lap + margin)],
       compound |-> _recommend_compound(tc, stop, num_stops, remaining_laps)]

\* variant: the loop runs over range(num_stops - 1)
_generate_pit_windows_short(tc, remaining_laps, num_stops) ==
  [i \in 1..(num_stops - 1) |-> pit_window(tc, remaining_laps, num_stops, i - 1)]

\* "for stop in range(num_stops): ... pit_windows.append(window)"
_generate_pit_windows(tc, remaining_laps, num_stops) ==
  [i \in 1..num_stops |-> pit_window(tc, remaining_laps, num_stops, i - 1)]

track_notes(track_type) ==
  IF track_type = "street" THEN <<"- Track position is crucial">>
  ELSE IF track_type = "high_speed"
    THEN <<"- Look for undercut opportunities", "- Be aggressive in overtaking zones">>
  ELSE <<>>

tire_notes(track_type) ==
  IF track_type \in {"high_speed", "technical"}
    THEN <<"- Manage tires in high-load corners">> ELSE <<>>

\* variant: the advisory needs a probability above 0.4
safety_car_notes_above(safety_car_prob) ==
  IF Gt(safety_car_prob, Milli(400))
    THEN <<"- Keep gaps under 20s for safety car">> ELSE <<>>

safety_car_notes(safety_car_prob) ==
  IF Ge(safety_car_prob, Milli(400))
    THEN <<"- Keep gaps under 20s for safety car">> ELSE <<>>

\* the notes in order; the method returns them joined by newlines as one
\* string, each prefixed by "- " (the empty string when there is none)
_generate_strategy_notes(tc, safety_car_prob) ==
  [type |-> "str",
   lines |-> track_notes(tc.track_type) \o tire_notes(tc.track_type)
               \o safety_car_notes(safety_car_prob)]

\* compounds_data[current_compound] raises KeyError
unknown_compound(table, current_compound) ==
  current_compound # NoCompound /\ current_compound \notin DOMAIN table

\* "if remaining_life < 0: remaining_life = 0"
floor_at_zero(x) == IF Lt(x, FromInt(0)) THEN FromInt(0) ELSE x

\* variant: the wear is also taken off the compound's max_life
store_consumed_life(table, current_compound, tire_age) ==
  IF current_compound = NoCompound THEN table
  ELSE [table EXCEPT
          ![current_compound].remaining_life =
             floor_at_zero(Sub(table[current_compound].max_life, FromInt(tire_age))),
          ![current_compound].max_life =
             floor_at_zero(Sub(table[current_compound].max_life, FromInt(tire_age)))]

\* compounds_data = self.TIRE_COMPOUNDS.copy() is a shallow copy: the
\* assignment of 'remaining_life' lands in the class-level dict
store_remaining_life(table, current_compound, tire_age) ==
  IF current_compound = NoCompound THEN table
  ELSE [table EXCEPT
          ![current_compound].remaining_life =
             floor_at_zero(Sub(table[current_compound].max_life, FromInt(tire_age)))]

\* variant: the race counts as finished only past the last lap
race_finished_strict(remaining_laps) == remaining_laps < 0

race_finished(remaining_laps) == remaining_laps <= 0

\* computed at the top of generate_strategy, and not used after
max_remaining_stops(tc, previous_stops) == tc.max_stops - Len(previous_stops)

NoNotes == [type |-> "str", lines |-> <<>>]

Recommendation(stops, windows, notes) ==
  [recommended_stops |-> stops, pit_windows |-> windows, strategy_notes |-> notes]

NoRecommendation == Recommendation(0, <<>>, NoNotes)

RaceFinished == Recommendation(0, <<>>, [type |-> "list", lines |-> <<"Race is finished">>])

Snapshot(lap, position, compound, age, stops) ==
  [current_lap |-> lap, current_position |-> position, current_compound |-> compound,
   tire_age |-> age, previous_stops |-> stops]

\* the call "base_stops = self._calculate_optimal_stops(...)" of
\* generate_strategy: of the characteristics it passes track_evolution and
\* safety_car_probability
estimate_stops(tc, table, s, remaining_laps) ==
  _calculate_optimal_stops(table, remaining_laps, s.current_compound, s.tire_age,
                           tc.track_evolution, tc.safety_car_probability)

\* the dict returned for a stop count
strategy(tc, remaining_laps, adjusted_stops) ==
  Recommendation(adjusted_stops,
                 _generate_pit_windows(tc, remaining_laps, adjusted_stops),
                 _generate_strategy_notes(tc, tc.safety_car_probability))

\* generate_strategy from the race-finished check on; table is the compound
\* table with remaining_life stored
recommend(tc, table, s, remaining_laps) ==
  [raised |-> FALSE, error |-> "", table |-> table,
   result |->
     IF race_finished(remaining_laps) THEN RaceFinished
     ELSE strategy(tc, remaining_laps,
            _adjust_strategy_for_position(
              estimate_stops(tc, table, s, remaining_laps),
              s.current_position, tc.traffic_impact, tc.overtaking_difficulty))]

\* the outcome of generate_strategy on snapshot s: what it raises or returns,
\* and the class-level compound table it leaves
generate_strategy(tc, table, s) ==
  IF unknown_compound(table, s.current_compound)
    THEN [raised |-> TRUE, error |-> "KeyError", table |-> table, result |-> NoRecommendation]
    ELSE recommend(tc, store_remaining_life(table, s.current_compound, s.tire_age), s,
                   tc.race_laps - s.current_lap)

---------------------------------------------------------------------------
(* Construction *)

\* variant: the session carries no tire performance at all
NoTirePerformance == <<>>

\* session_data['tire_performance'] as FastF1DataLoader._get_tire_performance
\* builds it: the per-compound records sit one level down, under
\* 'compound_performance', next to a list and three numbers
LoaderTirePerformance ==
  <<TireItem("compound_performance", "dict", Absent, Absent, Absent),
    TireItem("stints", "list", Absent, Absent, Absent),
    TireItem("pit_stops", "number", Absent, Absent, Absent),
    TireItem("avg_stint_length", "number", Absent, Absent, Absent),
    TireItem("traffic_impact", "number", Absent, Absent, Absent)>>

\* the constructor returns: the optimizer's track and characteristics, and
\* the compound table as the constructor leaves it
constructed(track_name, tc, table) ==
  [raised |-> FALSE, error |-> "", load_attempted |-> TRUE,
   track_name |-> track_name, tc |-> tc, table |-> table]

\* the try block when load_session returns: whatever update_characteristics
\* did before raising stays, the exception is swallowed
after_load(track_name, upd) == constructed(track_name, upd.tc, upd.table)

\* variant: an unknown track falls back to the dataclass defaults
construct_with_fallback(name, table, load_ok, weather) ==
  IF lower(name) \notin DOMAIN TRACK_CONFIGS
    THEN constructed(lower(name), TrackCharacteristics, table)
  ELSE IF load_ok
    THEN after_load(lower(name),
           update_characteristics(load_track_config(lower(name)), table,
                                  LoaderTirePerformance, weather))
  ELSE constructed(lower(name), load_track_config(lower(name)), table)

\* TrackStrategyOptimizer(name, year): load_ok tells whether load_session
\* returns (with the given weather) or raises
construct(name, table, load_ok, weather) ==
  IF lower(name) \notin DOMAIN TRACK_CONFIGS
    THEN [raised |-> TRUE, error |-> "KeyError", load_attempted |-> FALSE,
          track_name |-> lower(name), tc |-> TrackCharacteristics, table |-> table]
  ELSE IF load_ok
    THEN after_load(lower(name),
           update_characteristics(load_track_config(lower(name)), table,
                                  LoaderTirePerformance, weather))
  ELSE constructed(lower(name), load_track_config(lower(name)), table)

---------------------------------------------------------------------------
(* StrategyEvaluator.evaluate_circuit_strategy (src/strategy_evaluator.py): *)
(* the constructor, a second load_session by the caller, an explicit       *)
(* update_characteristics with that session's data, then a call of         *)
(* recommend_strategy, a method TrackStrategyOptimizer does not have       *)

\* from the explicit update_characteristics call on: its exception leaves
\* the function, and so does the AttributeError of the call after it
evaluate_after_update(c, u) ==
  [raised |-> TRUE, error |-> IF u.raised THEN u.error ELSE "AttributeError",
   exists |-> TRUE, load_attempted |-> c.load_attempted, track_name |-> c.track_name,
   tc |-> u.tc, table |-> u.table]

\* from the caller's load_session on; c is what the constructor did
evaluate_after_construct(c, load_ok, weather) ==
  IF c.raised
    THEN [raised |-> TRUE, error |-> c.error, exists |-> FALSE,
          load_attempted |-> c.load_attempted, track_name |-> c.track_name,
          tc |-> c.tc, table |-> c.table]
  ELSE IF ~load_ok
    THEN [raised |-> TRUE, error |-> "Exception", exists |-> TRUE,
          load_attempted |-> c.load_attempted, track_name |-> c.track_name,
          tc |-> c.tc, table |-> c.table]
  ELSE evaluate_after_update(c,
         update_characteristics(c.tc, c.table, LoaderTirePerformance, weather))

\* constructor_load_ok and load_ok tell whether the constructor's and the
\* caller's load_session return, both with the session's weather
evaluate_circuit_strategy(gp_name, table, constructor_load_ok, load_ok, weather) ==
  evaluate_after_construct(construct(lower(gp_name), table, constructor_load_ok, weather),
                           load_ok, weather)

---------------------------------------------------------------------------
(* get_track_details: the interactive loop, and display_strategy *)

TRACK_NAMES ==
  "australian_gp" :> "Australian Grand Prix" @@
  "chinese_gp" :> "Chinese Grand Prix" @@
  "japanese_gp" :> "Japanese Grand Prix" @@
  "bahrain_gp" :> "Bahrain Grand Prix" @@
  "saudi_arabia_gp" :> "Saudi Arabian Grand Prix" @@
  "miami_gp" :> "Miami Grand Prix" @@
  "emilia_romagna_gp" :> "Emilia Romagna Grand Prix" @@
  "monaco_gp" :> "Monaco Grand Prix" @@
  "spanish_gp" :> "Spanish Grand Prix" @@
  "canadian_gp" :> "Canadian Grand Prix" @@
  "austrian_gp" :> "Austrian Grand Prix" @@
  "british_gp" :> "British Grand Prix" @@
  "belgian_gp" :> "Belgian Grand Prix" @@
  "hungarian_gp" :> "Hungarian Grand Prix" @@
  "dutch_gp" :> "Dutch Grand Prix" @@
  "italian_gp" :> "Italian Grand Prix" @@
  "azerbaijan_gp" :> "Azerbaijan Grand Prix" @@
  "singapore_gp" :> "Singapore Grand Prix" @@
  "united_states_gp" :> "United States Grand Prix" @@
  "mexican_gp" :> "Mexican Grand Prix" @@
  "brazilian_gp" :> "Brazilian Grand Prix" @@
  "las_vegas_gp" :> "Las Vegas Grand Prix" @@
  "qatar_gp" :> "Qatar Grand Prix" @@
  "abu_dhabi_gp" :> "Abu Dhabi Grand Prix"

TRACK_ALIASES ==
  "australian" :> "australian_gp" @@
  "australia" :> "australian_gp" @@
  "chinese" :> "chinese_gp" @@
  "china" :> "chinese_gp" @@
  "japanese" :> "japanese_gp" @@
  "japan" :> "japanese_gp" @@
  "bahrain" :> "bahrain_gp" @@
  "saudi" :> "saudi_arabia_gp" @@
  "saudi arabia" :> "saudi_arabia_gp" @@
  "miami" :> "miami_gp" @@
  "emilia" :> "emilia_romagna_gp" @@
  "imola" :> "emilia_romagna_gp" @@
  "monaco" :> "monaco_gp" @@
  "monte carlo" :> "monaco_gp" @@
  "spanish" :> "spanish_gp" @@
  "spain" :> "spanish_gp" @@
  "canadian" :> "canadian_gp" @@
  "canada" :> "canadian_gp" @@
  "austrian" :> "austrian_gp" @@
  "austria" :> "austrian_gp" @@
  "british" :> "british_gp" @@
  "britain" :> "british_gp" @@
  "silverstone" :> "british_gp" @@
  "belgian" :> "belgian_gp" @@
  "belgium" :> "belgian_gp" @@
  "spa" :> "belgian_gp" @@
  "hungarian" :> "hungarian_gp" @@
  "hungary" :> "hungarian_gp" @@
  "dutch" :> "dutch_gp" @@
  "netherlands" :> "dutch_gp" @@
  "zandvoort" :> "dutch_gp" @@
  "italian" :> "italian_gp" @@
  "italy" :> "italian_gp" @@
  "monza" :> "italian_gp" @@
  "azerbaijan" :> "azerbaijan_gp" @@
  "baku" :> "azerbaijan_gp" @@
  "singapore" :> "singapore_gp" @@
  "marina bay" :> "singapore_gp" @@
  "united states" :> "united_states_gp" @@
  "usa" :> "united_states_gp" @@
  "cota" :> "united_states_gp" @@
  "mexican" :> "mexican_gp" @@
  "mexico" :> "mexican_gp" @@
  "brazilian" :> "brazilian_gp" @@
  "brazil" :> "brazilian_gp" @@
  "interlagos" :> "brazilian_gp" @@
  "las vegas" :> "las_vegas_gp" @@
  "qatar" :> "qatar_gp" @@
  "losail" :> "qatar_gp" @@
  "abu dhabi" :> "abu_dhabi_gp" @@
  "yas marina" :> "abu_dhabi_gp"

\* key.replace('_', ' ') on the keys of TRACK_NAMES
replace_underscores(key) ==
  CASE key = "australian_gp" -> "australian gp"
    [] key = "chinese_gp" -> "chinese gp"
    [] key = "japanese_gp" -> "japanese gp"
    [] key = "bahrain_gp" -> "bahrain gp"
    [] key = "saudi_arabia_gp" -> "saudi arabia gp"
    [] key = "miami_gp" -> "miami gp"
    [] key = "emilia_romagna_gp" -> "emilia romagna gp"
    [] key = "monaco_gp" -> "monaco gp"
    [] key = "spanish_gp" -> "spanish gp"
    [] key = "canadian_gp" -> "canadian gp"
    [] key = "austrian_gp" -> "austrian gp"
    [] key = "british_gp" -> "british gp"
    [] key = "belgian_gp" -> "belgian gp"
    [] key = "hungarian_gp" -> "hungarian gp"
    [] key = "dutch_gp" -> "dutch gp"
    [] key = "italian_gp" -> "italian gp"
    [] key = "azerbaijan_gp" -> "azerbaijan gp"
    [] key = "singapore_gp" -> "singapore gp"
    [] key = "united_states_gp" -> "united states gp"
    [] key = "mexican_gp" -> "mexican gp"
    [] key = "brazilian_gp" -> "brazilian gp"
    [] key = "las_vegas_gp" -> "las vegas gp"
    [] key = "qatar_gp" -> "qatar gp"
    [] key = "abu_dhabi_gp" -> "abu dhabi gp"
    [] OTHER -> key

NoTrack == ""

\* the track the loop takes track_input for: an alias first, then a display
\* name in lower case or a key with its underscores replaced by spaces
track_key_of(track_input) ==
  IF track_input \in DOMAIN TRACK_ALIASES THEN TRACK_ALIASES[track_input]
  ELSE IF \E key \in DOMAIN TRACK_NAMES :
            track_input = lower(TRACK_NAMES[key]) \/ track_input = replace_underscores(key)
    THEN CHOOSE key \in DOMAIN TRACK_NAMES :
            track_input = lower(TRACK_NAMES[key]) \/ track_input = replace_underscores(key)
  ELSE NoTrack

\* what is typed at the race-details prompts: numeric tells whether int()
\* accepts the numbers typed
RaceDetails(numeric, s) == [numeric |-> numeric, snapshot |-> s]

\* the entries for which the try block raises ValueError before it
\* calls generate_strategy
rejected(d) ==
  \/ ~d.numeric
  \/ d.snapshot.current_compound \notin {"soft", "medium", "hard", "inter", "wet"}
  \/ d.snapshot.tire_age < 0
  \/ Len(d.snapshot.previous_stops) > 3
  \/ \E i \in 1..Len(d.snapshot.previous_stops) :
        \/ d.snapshot.previous_stops[i] < 1
        \/ d.snapshot.previous_stops[i] >= d.snapshot.current_lap
  \/ d.snapshot.current_position <= 0
  \/ d.snapshot.current_lap < 0
  \/ d.snapshot.current_position > 20

\* the keys display_strategy subscripts its argument with, in the order it
\* reads them
display_reads ==
  <<"current_compound", "tire_age", "pit_stops_made", "previous_stops",
    "recommended_stops", "pit_windows", "strategy_notes">>

\* the keys it subscripts each pit window and its 'window' with
window_reads == {"stop_number", "window", "compound"}
lap_reads == {"start", "end", "optimal"}

\* display_strategy on the record generate_strategy returned: a subscript
\* with a key the record lacks raises KeyError
display_strategy(result) ==
  IF \E i \in DOMAIN display_reads : display_reads[i] \notin DOMAIN result
    THEN [raised |-> TRUE, error |-> "KeyError"]
  ELSE IF \E i \in DOMAIN result.pit_windows :
            \/ ~(window_reads \subseteq DOMAIN result.pit_windows[i])
            \/ ~(lap_reads \subseteq DOMAIN result.pit_windows[i].window)
    THEN [raised |-> TRUE, error |-> "KeyError"]
  ELSE [raised |-> FALSE, error |-> ""]

\* the try block of the loop from generate_strategy on; g is what
\* generate_strategy did
after_generate(g) ==
  IF g.raised THEN [raised |-> TRUE, error |-> g.error]
  ELSE display_strategy(g.result)

---------------------------------------------------------------------------
(* PointsOptimizer (src/src/models/points_optimizer.py) *)

POINTS_SYSTEM ==
  1 :> 25 @@ 2 :> 18 @@ 3 :> 15 @@ 4 :> 12 @@ 5 :> 10 @@
  6 :> 8 @@ 7 :> 6 @@ 8 :> 4 @@ 9 :> 2 @@ 10 :> 1

\* what a loaded session holds of one driver: the position on the first and
\* on the last of their laps, and of each stint the compound and the first
\* lap; no stints stands for a driver without laps
Driver(start_pos, final_pos, stints) ==
  [start_pos |-> start_pos, final_pos |-> final_pos, stints |-> stints]

\* one season's race of a circuit: loads tells whether get_session and
\* session.load return
Session(loads, wet_race, avg_track_temp, safety_car, red_flag, drivers) ==
  [loads |-> loads,
   race_conditions |-> [wet_race |-> wet_race, avg_track_temp |-> avg_track_temp,
                        safety_car |-> safety_car, red_flag |-> red_flag],
   drivers |-> drivers]

\* the values of a sequence in order of first appearance
RECURSIVE unique(_)
unique(s) ==
  IF s = <<>> THEN <<>>
  ELSE IF \E i \in 1..(Len(s) - 1) : s[i] = s[Len(s)]
    THEN unique(SubSeq(s, 1, Len(s) - 1))
  ELSE Append(unique(SubSeq(s, 1, Len(s) - 1)), s[Len(s)])

\* pos_change / max_possible_change, or 0 for a driver who starts first
strategy_success(start_pos, final_pos) ==
  IF start_pos > 1 THEN Rat(start_pos - final_pos, start_pos - 1) ELSE FromInt(0)

StrategyResult(driver, race_conditions) ==
  [stops |-> Len(driver.stints) - 1,
   compounds |-> unique([i \in 1..Len(driver.stints) |-> driver.stints[i][1]]),
   stop_laps |-> [i \in 1..(Len(driver.stints) - 1) |-> driver.stints[i + 1][2]],
   final_position |-> driver.final_pos,
   points_scored |-> IF driver.final_pos \in DOMAIN POINTS_SYSTEM
                       THEN POINTS_SYSTEM[driver.final_pos] ELSE 0,
   race_conditions |-> race_conditions,
   strategy_success |-> strategy_success(driver.start_pos, driver.final_pos)]

\* load_historical_data: a season that does not load is skipped with a
\* warning, every other one appends a result per driver that has laps
RECURSIVE load_historical_data(_, _)
load_historical_data(data, seasons) ==
  IF seasons = <<>> THEN data
  ELSE load_historical_data(
         IF seasons[1].loads
           THEN data \o [i \in DOMAIN SelectSeq(seasons[1].drivers,
                                                LAMBDA d : d.stints # <<>>) |->
                           StrategyResult(SelectSeq(seasons[1].drivers,
                                                    LAMBDA d : d.stints # <<>>)[i],
                                          seasons[1].race_conditions)]
           ELSE data,
         Tail(seasons))

\* the conditions argument: None, or a dict with the keys 'wet_race' and
\* 'track_temp' that are not Absent
Conditions(wet, temp) == [wet_race |-> wet, track_temp |-> temp]

\* the filter for similar conditions
similar(conditions, s) ==
  /\ conditions.wet_race # Absent => conditions.wet_race[1] = s.race_conditions.wet_race
  /\ conditions.track_temp # Absent =>
       Abs(conditions.track_temp[1] - s.race_conditions.avg_track_temp) < 10

points_strategies(data, conditions) ==
  SelectSeq(data, LAMBDA s : s.points_scored > 0 /\ similar(conditions, s))

\* np.mean of a list of rationals
Mean(values) == Mul(SumOf(values), Rat(1, Len(values)))

\* strategy_analysis['stop_counts'][stops]
stop_count(strategies, stops) ==
  Cardinality({i \in DOMAIN strategies : strategies[i].stops = stops})

\* variant: the smallest stop count among the results
best_stops_fewest(strategies, keys) ==
  CHOOSE k \in {keys[i] : i \in DOMAIN keys} : \A j \in DOMAIN keys : k <= keys[j]

\* max(stop_counts.items(), key=count)[0]: of the most frequent stop counts
\* the one met first; keys are the stop counts in order of first appearance
best_stops(strategies, keys) ==
  keys[CHOOSE i \in DOMAIN keys :
         /\ \A j \in DOMAIN keys :
               stop_count(strategies, keys[j]) <= stop_count(strategies, keys[i])
         /\ \A j \in 1..(i - 1) :
               stop_count(strategies, keys[j]) < stop_count(strategies, keys[i])]

\* the entry of compound_combinations for one sequence of compounds, after
\* the running averages over the results with these compounds
compound_combination(with_compounds) ==
  [compounds |-> with_compounds[1].compounds,
   count |-> Len(with_compounds),
   avg_points |-> Mean([i \in DOMAIN with_compounds |->
                          FromInt(with_compounds[i].points_scored)]),
   success_rate |-> Mean([i \in DOMAIN with_compounds |->
                            with_compounds[i].strategy_success])]

\* sorted(..., key=(avg_points, success_rate), reverse=True), which keeps
\* entries with equal keys in order: an entry comes after those with a
\* greater key and after the earlier ones with the same key
sorted_combinations(combos) ==
  [p \in DOMAIN combos |->
     combos[CHOOSE i \in DOMAIN combos :
              p = 1 + Cardinality({j \in DOMAIN combos :
                        \/ Gt(combos[j].avg_points, combos[i].avg_points)
                        \/ /\ combos[j].avg_points = combos[i].avg_points
                           /\ Gt(combos[j].success_rate, combos[i].success_rate)
                        \/ /\ combos[j].avg_points = combos[i].avg_points
                           /\ combos[j].success_rate = combos[i].success_rate
                           /\ j < i})]]

compound_combinations(strategies, keys) ==
  sorted_combinations(
    [k \in DOMAIN keys |->
       compound_combination(SelectSeq(strategies, LAMBDA s : s.compounds = keys[k]))])

sorted_laps(laps) ==
  [p \in DOMAIN laps |->
     laps[CHOOSE i \in DOMAIN laps :
            p = 1 + Cardinality({j \in DOMAIN laps :
                                   laps[j] < laps[i] \/ (laps[j] = laps[i] /\ j < i)})]]

\* int(np.median(laps)) of a sorted list
median(sorted) ==
  IF Len(sorted) % 2 = 1 THEN sorted[(Len(sorted) + 1) \div 2]
  ELSE (sorted[Len(sorted) \div 2] + sorted[Len(sorted) \div 2 + 1]) \div 2

\* the range of one stop; std_squared is the square of 'std'
stop_window(laps) ==
  [min |-> sorted_laps(laps)[1],
   max |-> sorted_laps(laps)[Len(laps)],
   median |-> median(sorted_laps(laps)),
   std_squared |-> Sub(Mean([i \in DOMAIN laps |-> FromInt(laps[i] * laps[i])]),
                       Mul(Mean([i \in DOMAIN laps |-> FromInt(laps[i])]),
                           Mean([i \in DOMAIN laps |-> FromInt(laps[i])])))]

\* strategy_analysis['stop_windows'][stop_num]: the range over the laps of
\* stop stop_num of the results that made it
stop_windows(strategies, stop_num) ==
  stop_window([i \in DOMAIN SelectSeq(strategies, LAMBDA s : Len(s.stop_laps) >= stop_num) |->
                 SelectSeq(strategies,
                           LAMBDA s : Len(s.stop_laps) >= stop_num)[i].stop_laps[stop_num]])

\* strategy_analysis['recommendations']
recommendations(strategies, optimal_stops) ==
  [optimal_stops |-> optimal_stops,
   optimal_compounds |->
     compound_combinations(strategies,
                           unique([i \in DOMAIN strategies |-> strategies[i].compounds])
                          )[1].compounds,
   stop_windows |-> [i \in 1..optimal_stops |-> stop_windows(strategies, i)],
   confidence_score |-> Mean([i \in DOMAIN strategies |-> strategies[i].strategy_success])]

\* analyze_successful_strategies from the analysis of the patterns on
analysis(strategies) ==
  [total_analyzed |-> Len(strategies),
   avg_points |-> Mean([i \in DOMAIN strategies |-> FromInt(strategies[i].points_scored)]),
   compound_combinations |->
     compound_combinations(strategies,
                           unique([i \in DOMAIN strategies |-> strategies[i].compounds])),
   recommendations |->
     recommendations(strategies,
                     best_stops(strategies,
                                unique([i \in DOMAIN strategies |-> strategies[i].stops])))]

\* a number rounded to the nearest integer, a tie to the even one
round(x) ==
  IF 2 * (x[1] % x[2]) < x[2] THEN x[1] \div x[2]
  ELSE IF 2 * (x[1] % x[2]) > x[2] THEN x[1] \div x[2] + 1
  ELSE IF (x[1] \div x[2]) % 2 = 0 THEN x[1] \div x[2]
  ELSE x[1] \div x[2] + 1

\* f"{x:.2%}" as hundredths of a percent, f"{x:.1f}" as tenths
percent(x) == round(Mul(x, FromInt(10000)))
one_decimal(x) == round(Mul(x, FromInt(10)))

\* the response get_points_optimized_strategy formats from an analysis
formatted(circuit, a) ==
  [circuit |-> circuit,
   strategy_summary |->
     [recommended_stops |-> a.recommendations.optimal_stops,
      tire_compounds |-> a.recommendations.optimal_compounds,
      confidence |-> percent(a.recommendations.confidence_score)],
   stop_windows |->
     [i \in DOMAIN a.recommendations.stop_windows |->
        [stop_number |-> i,
         window |-> a.recommendations.stop_windows[i],
         optimal_lap |-> a.recommendations.stop_windows[i].median]],
   historical_insights |->
     [analyzed_races |-> a.total_analyzed,
      average_points |-> one_decimal(a.avg_points),
      most_successful_combinations |->
        [i \in 1..Min(3, Len(a.compound_combinations)) |->
           [compounds |-> a.compound_combinations[i].compounds,
            success_rate |-> percent(a.compound_combinations[i].success_rate),
            avg_points |-> one_decimal(a.compound_combinations[i].avg_points)]]]]

\* analyze_successful_strategies and the formatting, inside the try block:
\* the ValueError for no history is caught and becomes an 'error' record
analyze_successful_strategies(data, circuit, conditions) ==
  IF data = <<>>
    THEN [error |-> "Failed to generate strategy: No historical data loaded. Call load_historical_data first."]
  ELSE IF points_strategies(data, conditions) = <<>>
    THEN [error |-> "No matching points-scoring strategies found in historical data"]
  ELSE formatted(circuit, analysis(points_strategies(data, conditions)))

\* get_points_optimized_strategy on an optimizer holding data; seasons is
\* what fastf1 holds of the circuit. The history is loaded only when the
\* optimizer holds none
get_points_optimized_strategy(data, circuit, conditions, seasons) ==
  [raised |-> FALSE,
   historical_data |-> IF data = <<>> THEN load_historical_data(data, seasons) ELSE data,
   result |-> analyze_successful_strategies(
                IF data = <<>> THEN load_historical_data(data, seasons) ELSE data,
                circuit, conditions)]

---------------------------------------------------------------------------
(* Inputs *)

TrackNameInputs == TrackKeys \cup {"nonexistent_gp", "monaco", "Monaco", "MONACO_GP"}

\* the grid of snapshots the strategy is explored on
GridSnapshots(race_laps) ==
  {Snapshot(lap, position, compound, age, stops) :
     lap \in {5, 40, race_laps - 1, race_laps, race_laps + 1},
     position \in {3, 5, 11},
     compound \in {NoCompound, "soft", "medium"},
     age \in {0, 20},
     stops \in {<<>>, <<10>>}}

\* every compound identifier, during the race and after it
CompoundInputs == {NoCompound, "soft", "medium", "hard", "inter", "wet", "intermediate", "ultra"}

CompoundSnapshots(race_laps) ==
  {Snapshot(lap, 5, compound, 20, <<>>) :
     lap \in {40, race_laps}, compound \in CompoundInputs}

\* snapshots with one field out of range
OutOfRangeSnapshots ==
  {Snapshot(-1, 5, "medium", 20, <<>>),
   Snapshot(40, 0, "medium", 20, <<>>),
   Snapshot(40, 21, "medium", 20, <<>>),
   Snapshot(40, 5, "medium", -1, <<>>),
   Snapshot(40, 5, "medium", 20, <<10, 40>>),
   Snapshot(40, 5, "medium", 20, <<10, 20>>)}

Snapshots(race_laps) ==
  GridSnapshots(race_laps) \cup CompoundSnapshots(race_laps) \cup OutOfRangeSnapshots

RepeatSnapshots(race_laps) ==
  {Snapshot(lap, 5, compound, age, <<>>) :
     lap \in {40, race_laps}, compound \in {NoCompound, "soft", "medium"}, age \in {0, 5, 20}}

TireDataInputs ==
  {<<>>,
   <<TireItem("medium", "dict", Milli(24), FromInt(30), FromInt(79))>>,
   <<TireItem("soft", "dict", Absent, FromInt(10), Absent)>>,
   <<TireItem("SOFT", "dict", Milli(36), FromInt(20), FromInt(78)),
     TireItem("soft", "dict", Absent, FromInt(10), FromInt(78))>>,
   <<TireItem("hard", "dict", Absent, Absent, FromInt(80)),
     TireItem("soft", "dict", Absent, FromInt(4), FromInt(78))>>,
   LoaderTirePerformance}

WeatherInputs ==
  {NoWeather,
   WeatherData(<<TRUE>>, <<FromInt(45)>>, Absent, FALSE),
   WeatherData(<<FALSE>>, <<FromInt(25)>>, <<Milli(500)>>, TRUE),
   WeatherData(Absent, Absent, Absent, TRUE)}

---------------------------------------------------------------------------
(* State machine *)

NoSnapshot == Snapshot(0, 0, NoCompound, 0, <<>>)

Outcome(op, name, load_attempted, raised, error, arg, result) ==
  [op |-> op, name |-> name, load_attempted |-> load_attempted, raised |-> raised,
   error |-> error, arg |-> arg, result |-> result]

NoOptimizer == [exists |-> FALSE, track_name |-> "", track_characteristics |-> TrackCharacteristics]

NotRemembered == [set |-> FALSE, arg |-> NoSnapshot, result |-> NoRecommendation]

\* nothing loaded
NoSession == [loaded |-> FALSE, constructor_loaded |-> FALSE, weather |-> NoWeather]

\* fastf1 not asked, and no call of get_points_optimized_strategy yet
NoArchive == <<>>
NoAnswer == [op |-> "none", circuit |-> "", conditions |-> [wet_race |-> <<>>, track_temp |-> <<>>],
             raised |-> FALSE, result |-> [error |-> ""]]

\* no helper applied
NoProbe == [fn |-> "none", applied |-> FALSE]

Init ==
  /\ optimizer = NoOptimizer
  /\ TIRE_COMPOUNDS = TIRE_COMPOUNDS_DEFAULT
  /\ last = Outcome("none", "", FALSE, FALSE, "", NoSnapshot, NoRecommendation)
  /\ updates = 0
  /\ calls = 0
  /\ remembered = NotRemembered
  /\ peer = NoOptimizer
  /\ probe = NoProbe
  /\ session = NoSession
  /\ prompt = "none"
  /\ archive = NoArchive
  /\ historical_data = <<>>
  /\ answer = NoAnswer
  /\ points_calls = 0

Construct(name, load_ok, weather) ==
  /\ ~optimizer.exists
  /\ \E c \in {construct(name, TIRE_COMPOUNDS, load_ok, weather)} :
         /\ optimizer' = IF c.raised THEN optimizer
                         ELSE [exists |-> TRUE, track_name |-> c.track_name,
                               track_characteristics |-> c.tc]
         /\ TIRE_COMPOUNDS' = c.table
         /\ last' = Outcome("construct", name, c.load_attempted, c.raised, c.error,
                            NoSnapshot, NoRecommendation)
  /\ UNCHANGED <<updates, calls, remembered, peer, probe, session, prompt, archive,
                 historical_data, answer, points_calls>>

UpdateCharacteristics(tire_data, weather_data) ==
  /\ optimizer.exists
  /\ updates < MaxUpdates
  /\ \E u \in {update_characteristics(optimizer.track_characteristics, TIRE_COMPOUNDS,
                                      tire_data, weather_data)} :
         /\ optimizer' = [optimizer EXCEPT !.track_characteristics = u.tc]
         /\ TIRE_COMPOUNDS' = u.table
         /\ last' = Outcome("update", "", FALSE, u.raised, u.error, NoSnapshot, NoRecommendation)
  /\ updates' = updates + 1
  /\ remembered' = NotRemembered
  /\ UNCHANGED <<calls, peer, probe, session, prompt, archive, historical_data, answer,
                 points_calls>>

GenerateStrategy ==
  /\ optimizer.exists
  /\ calls < MaxCalls
  /\ \E s \in Snapshots(optimizer.track_characteristics.race_laps) :
     \E g \in {generate_strategy(optimizer.track_characteristics, TIRE_COMPOUNDS, s)} :
         /\ TIRE_COMPOUNDS' = g.table
         /\ last' = Outcome("generate", "", FALSE, g.raised, g.error, s, g.result)
  /\ calls' = calls + 1
  /\ UNCHANGED <<optimizer, updates, remembered, peer, probe, session, prompt, archive,
                 historical_data, answer, points_calls>>

\* a call whose snapshot and recommendation the caller keeps for comparison
\* when it is the first since the characteristics were last set
GenerateStrategyAgain ==
  /\ optimizer.exists
  /\ calls < MaxRepeats
  /\ \E s \in RepeatSnapshots(optimizer.track_characteristics.race_laps) :
     \E g \in {generate_strategy(optimizer.track_characteristics, TIRE_COMPOUNDS, s)} :
         /\ TIRE_COMPOUNDS' = g.table
         /\ last' = Outcome("generate", "", FALSE, g.raised, g.error, s, g.result)
         /\ remembered' = IF remembered.set \/ g.raised THEN remembered
                          ELSE [set |-> TRUE, arg |-> s, result |-> g.result]
  /\ calls' = calls + 1
  /\ UNCHANGED <<optimizer, updates, peer, probe, session, prompt, archive,
                 historical_data, answer, points_calls>>

Next ==
  \/ \E name \in TrackNameInputs, load_ok \in BOOLEAN, weather \in WeatherInputs :
       Construct(name, load_ok, weather)
  \/ \E tire_data \in TireDataInputs, weather_data \in WeatherInputs :
       UpdateCharacteristics(tire_data, weather_data)
  \/ GenerateStrategy

Spec == Init /\ [][Next]_vars

NextRepeat ==
  \/ \E name \in TrackNameInputs, load_ok \in BOOLEAN, weather \in WeatherInputs :
       Construct(name, load_ok, weather)
  \/ \E tire_data \in TireDataInputs, weather_data \in WeatherInputs :
       UpdateCharacteristics(tire_data, weather_data)
  \/ GenerateStrategyAgain

SpecRepeat == Init /\ [][NextRepeat]_vars

---------------------------------------------------------------------------
(* Two instances of one process: TIRE_COMPOUNDS is a class attribute, so   *)
(* both read and write the same table                                      *)

PeerNameInputs == {"monaco_gp", "italian_gp"}

\* TrackStrategyOptimizer(name, year) for the second instance
ConstructPeer(name, load_ok, weather) ==
  /\ ~peer.exists
  /\ \E c \in {construct(name, TIRE_COMPOUNDS, load_ok, weather)} :
         /\ peer' = IF c.raised THEN peer
                    ELSE [exists |-> TRUE, track_name |-> c.track_name,
                          track_characteristics |-> c.tc]
         /\ TIRE_COMPOUNDS' = c.table
         /\ last' = Outcome("construct_peer", name, c.load_attempted, c.raised, c.error,
                            NoSnapshot, NoRecommendation)
  /\ UNCHANGED <<optimizer, updates, calls, remembered, probe, session, prompt, archive,
                 historical_data, answer, points_calls>>

\* update_characteristics called on the second instance
UpdatePeerCharacteristics(tire_data, weather_data) ==
  /\ peer.exists
  /\ updates < MaxUpdates
  /\ \E u \in {update_characteristics(peer.track_characteristics, TIRE_COMPOUNDS,
                                      tire_data, weather_data)} :
         /\ peer' = [peer EXCEPT !.track_characteristics = u.tc]
         /\ TIRE_COMPOUNDS' = u.table
         /\ last' = Outcome("update_peer", "", FALSE, u.raised, u.error,
                            NoSnapshot, NoRecommendation)
  /\ updates' = updates + 1
  /\ UNCHANGED <<optimizer, calls, remembered, probe, session, prompt, archive,
                 historical_data, answer, points_calls>>

\* generate_strategy on the first instance, while a second one is around
GenerateStrategyBeside ==
  /\ optimizer.exists
  /\ calls < MaxCalls
  /\ \E s \in RepeatSnapshots(optimizer.track_characteristics.race_laps) :
     \E g \in {generate_strategy(optimizer.track_characteristics, TIRE_COMPOUNDS, s)} :
         /\ TIRE_COMPOUNDS' = g.table
         /\ last' = Outcome("generate", "", FALSE, g.raised, g.error, s, g.result)
  /\ calls' = calls + 1
  /\ UNCHANGED <<optimizer, updates, remembered, peer, probe, session, prompt, archive,
                 historical_data, answer, points_calls>>

NextShared ==
  \/ \E name \in TrackNameInputs, load_ok \in BOOLEAN, weather \in WeatherInputs :
       Construct(name, load_ok, weather)
  \/ \E name \in PeerNameInputs, load_ok \in BOOLEAN, weather \in WeatherInputs :
       ConstructPeer(name, load_ok, weather)
  \/ \E tire_data \in TireDataInputs, weather_data \in WeatherInputs :
       UpdatePeerCharacteristics(tire_data, weather_data)
  \/ GenerateStrategyBeside

SpecShared == Init /\ [][NextShared]_vars

---------------------------------------------------------------------------
(* The private helpers applied directly to chosen arguments *)

\* arguments of _calculate_optimal_stops, applied at tire_age and at older_age
CalculateProbes ==
  {[fn |-> "calculate", applied |-> FALSE,
    remaining_laps |-> remaining_laps, current_compound |-> compound,
    tire_age |-> age, older_age |-> older,
    track_evolution |-> Milli(evolution), safety_car_prob |-> Milli(prob),
    stops |-> 0, stops_older |-> 0] :
     remaining_laps \in {1, 10, 20, 30, 45, 60},
     compound \in {NoCompound, "soft", "medium", "hard"},
     age \in {-1, 0, 1, 10, 20, 30, 50}, older \in {-1, 0, 1, 10, 20, 30, 50},
     evolution \in {7, 8, 10, 12, 13}, prob \in {100, 200, 300, 400, 500}}

\* the estimate generate_strategy asks for on a track, under the track's
\* characteristics with tire_degradation set to degradation and to 1.0
EstimateProbes ==
  {[fn |-> "estimate", applied |-> FALSE, track |-> track,
    tire_degradation |-> Milli(degradation),
    arg |-> Snapshot(lap, 5, compound, age, <<>>),
    stops |-> 0, stops_nominal |-> 0] :
     track \in {"monaco_gp", "italian_gp", "bahrain_gp"},
     degradation \in {500, 800, 1000, 1200, 1500},
     lap \in {5, 40}, compound \in {NoCompound, "soft", "medium"}, age \in {0, 20}}

\* arguments of _adjust_strategy_for_position
AdjustProbes ==
  {[fn |-> "adjust", applied |-> FALSE, base_stops |-> base_stops,
    current_position |-> position, traffic_impact |-> Milli(traffic),
    overtaking_difficulty |-> Milli(overtaking), stops |-> 0] :
     base_stops \in 0..3, position \in {1, 4, 5, 7, 10, 11, 20},
     traffic \in {300, 400, 500, 600, 700},
     overtaking \in {400, 500, 600, 700, 800}}

InitRules ==
  /\ optimizer = NoOptimizer
  /\ TIRE_COMPOUNDS = TIRE_COMPOUNDS_DEFAULT
  /\ last = Outcome("none", "", FALSE, FALSE, "", NoSnapshot, NoRecommendation)
  /\ updates = 0
  /\ calls = 0
  /\ remembered = NotRemembered
  /\ peer = NoOptimizer
  /\ probe \in CalculateProbes \cup EstimateProbes \cup AdjustProbes
  /\ session = NoSession
  /\ prompt = "none"
  /\ archive = NoArchive
  /\ historical_data = <<>>
  /\ answer = NoAnswer
  /\ points_calls = 0

CalculateOptimalStops ==
  /\ probe.fn = "calculate" /\ ~probe.applied
  /\ probe' = [probe EXCEPT
                 !.applied = TRUE,
                 !.stops = _calculate_optimal_stops(TIRE_COMPOUNDS, probe.remaining_laps,
                             probe.current_compound, probe.tire_age,
                             probe.track_evolution, probe.safety_car_prob),
                 !.stops_older = _calculate_optimal_stops(TIRE_COMPOUNDS, probe.remaining_laps,
                                   probe.current_compound, probe.older_age,
                                   probe.track_evolution, probe.safety_car_prob)]
  /\ UNCHANGED <<optimizer, TIRE_COMPOUNDS, last, updates, calls, remembered, peer,
                 session, prompt, archive, historical_data, answer, points_calls>>

EstimateStops ==
  /\ probe.fn = "estimate" /\ ~probe.applied
  /\ probe' = [probe EXCEPT
                 !.applied = TRUE,
                 !.stops = estimate_stops(
                             [load_track_config(probe.track) EXCEPT
                                !.tire_degradation = probe.tire_degradation],
                             TIRE_COMPOUNDS, probe.arg,
                             TRACK_CONFIGS[probe.track].race_laps - probe.arg.current_lap),
                 !.stops_nominal = estimate_stops(
                             [load_track_config(probe.track) EXCEPT
                                !.tire_degradation = FromInt(1)],
                             TIRE_COMPOUNDS, probe.arg,
                             TRACK_CONFIGS[probe.track].race_laps - probe.arg.current_lap)]
  /\ UNCHANGED <<optimizer, TIRE_COMPOUNDS, last, updates, calls, remembered, peer,
                 session, prompt, archive, historical_data, answer, points_calls>>

AdjustStrategyForPosition ==
  /\ probe.fn = "adjust" /\ ~probe.applied
  /\ probe' = [probe EXCEPT
                 !.applied = TRUE,
                 !.stops = _adjust_strategy_for_position(probe.base_stops,
                             probe.current_position, probe.traffic_impact,
                             probe.overtaking_difficulty)]
  /\ UNCHANGED <<optimizer, TIRE_COMPOUNDS, last, updates, calls, remembered, peer,
                 session, prompt, archive, historical_data, answer, points_calls>>

NextRules == CalculateOptimalStops \/ EstimateStops \/ AdjustStrategyForPosition

SpecRules == InitRules /\ [][NextRules]_vars

---------------------------------------------------------------------------
(* One evaluation of a circuit *)

EvaluateCircuitStrategy(gp_name, constructor_load_ok, load_ok, weather) ==
  /\ ~optimizer.exists
  /\ last.op = "none"
  /\ \E e \in {evaluate_circuit_strategy(gp_name, TIRE_COMPOUNDS, constructor_load_ok,
                                          load_ok, weather)} :
         /\ optimizer' = IF e.exists
                           THEN [exists |-> TRUE, track_name |-> e.track_name,
                                 track_characteristics |-> e.tc]
                           ELSE optimizer
         /\ TIRE_COMPOUNDS' = e.table
         /\ last' = Outcome("evaluate", gp_name, e.load_attempted, e.raised, e.error,
                            NoSnapshot, NoRecommendation)
         /\ session' = [loaded |-> e.exists /\ load_ok,
                        constructor_loaded |-> e.exists /\ constructor_load_ok,
                        weather |-> IF e.exists /\ (load_ok \/ constructor_load_ok)
                                      THEN weather ELSE NoWeather]
  /\ UNCHANGED <<updates, calls, remembered, peer, probe, prompt, archive,
                 historical_data, answer, points_calls>>

NextSession ==
  \E gp_name \in TrackNameInputs, constructor_load_ok \in BOOLEAN, load_ok \in BOOLEAN,
     weather \in WeatherInputs :
     EvaluateCircuitStrategy(gp_name, constructor_load_ok, load_ok, weather)

SpecSession == Init /\ [][NextSession]_vars

---------------------------------------------------------------------------
(* The interactive loop *)

TrackInputs ==
  {"exit", "quit", "monaco", "monaco gp", "monaco grand prix", "monaco_gp", "spa",
   "japan", "australian gp", "bahrain grand prix", "nowhere"}

RaceDetailsInputs(race_laps) ==
  {RaceDetails(TRUE, s) : s \in Snapshots(race_laps)} \cup
  {RaceDetails(FALSE, Snapshot(0, 0, "medium", 0, <<>>)),
   RaceDetails(TRUE, Snapshot(40, 5, "medium", 20, <<5, 10, 15, 20>>))}

InitLoop ==
  /\ optimizer = NoOptimizer
  /\ TIRE_COMPOUNDS = TIRE_COMPOUNDS_DEFAULT
  /\ last = Outcome("none", "", FALSE, FALSE, "", NoSnapshot, NoRecommendation)
  /\ updates = 0
  /\ calls = 0
  /\ remembered = NotRemembered
  /\ peer = NoOptimizer
  /\ probe = NoProbe
  /\ session = NoSession
  /\ prompt = "track"
  /\ archive = NoArchive
  /\ historical_data = <<>>
  /\ answer = NoAnswer
  /\ points_calls = 0

\* one entry at the track prompt: 'exit' and 'quit' end the loop, an unknown
\* name asks again, a known one builds the optimizer and asks for the race
EnterTrackName(track_input, load_ok, weather) ==
  /\ prompt = "track"
  /\ IF track_input \in {"exit", "quit"}
       THEN /\ prompt' = "ended"
            /\ last' = Outcome("track", track_input, FALSE, FALSE, "", NoSnapshot,
                               NoRecommendation)
            /\ UNCHANGED <<optimizer, TIRE_COMPOUNDS>>
     ELSE IF track_key_of(track_input) = NoTrack
       THEN /\ prompt' = "track"
            /\ last' = Outcome("track", track_input, FALSE, FALSE, "", NoSnapshot,
                               NoRecommendation)
            /\ UNCHANGED <<optimizer, TIRE_COMPOUNDS>>
     ELSE \E c \in {construct(track_key_of(track_input), TIRE_COMPOUNDS, load_ok, weather)} :
            /\ prompt' = "details"
            /\ optimizer' = [exists |-> TRUE, track_name |-> c.track_name,
                             track_characteristics |-> c.tc]
            /\ TIRE_COMPOUNDS' = c.table
            /\ last' = Outcome("track", track_input, c.load_attempted, FALSE, "",
                               NoSnapshot, NoRecommendation)
  /\ UNCHANGED <<updates, calls, remembered, peer, probe, session, archive,
                 historical_data, answer, points_calls>>

\* one entry of race details: a rejected one returns to the track prompt;
\* otherwise generate_strategy and display_strategy run, and what they
\* raise is not a ValueError, so it leaves the loop
EnterRaceDetails ==
  /\ prompt = "details"
  /\ \E d \in RaceDetailsInputs(optimizer.track_characteristics.race_laps) :
       IF rejected(d)
         THEN /\ prompt' = "track"
              /\ last' = Outcome("details", optimizer.track_name, FALSE, FALSE,
                                 "ValueError", d.snapshot, NoRecommendation)
              /\ UNCHANGED TIRE_COMPOUNDS
         ELSE \E g \in {generate_strategy(optimizer.track_characteristics, TIRE_COMPOUNDS,
                                           d.snapshot)} :
                /\ prompt' = IF after_generate(g).raised THEN "raised" ELSE "track"
                /\ last' = Outcome("details", optimizer.track_name, FALSE,
                                   after_generate(g).raised, after_generate(g).error,
                                   d.snapshot, g.result)
                /\ TIRE_COMPOUNDS' = g.table
  /\ UNCHANGED <<optimizer, updates, calls, remembered, peer, probe, session, archive,
                 historical_data, answer, points_calls>>

NextLoop ==
  \/ \E track_input \in TrackInputs, load_ok \in BOOLEAN, weather \in WeatherInputs :
        EnterTrackName(track_input, load_ok, weather)
  \/ EnterRaceDetails

SpecLoop == InitLoop /\ [][NextLoop]_vars

---------------------------------------------------------------------------
(* One PointsOptimizer *)

Circuits == {"Monaco", "Monza", "Nowhere"}

NotLoading == Session(FALSE, FALSE, 0, FALSE, FALSE, <<>>)

SessionInputs ==
  {NotLoading,
   Session(TRUE, FALSE, 35, FALSE, FALSE,
           <<Driver(1, 1, <<<<"SOFT", 1>>, <<"HARD", 20>>>>),
             Driver(3, 2, <<<<"MEDIUM", 1>>, <<"HARD", 25>>>>),
             Driver(2, 10, <<<<"SOFT", 1>>, <<"MEDIUM", 15>>, <<"SOFT", 40>>>>),
             Driver(5, 12, <<<<"HARD", 1>>>>),
             Driver(20, 20, <<>>)>>),
   Session(TRUE, TRUE, 22, TRUE, TRUE,
           <<Driver(4, 1, <<<<"INTERMEDIATE", 1>>, <<"INTERMEDIATE", 30>>, <<"SOFT", 50>>>>),
             Driver(1, 3, <<<<"INTERMEDIATE", 1>>, <<"SOFT", 45>>>>),
             Driver(6, 4, <<<<"WET", 1>>, <<"INTERMEDIATE", 10>>, <<"SOFT", 48>>>>)>>),
   Session(TRUE, FALSE, 48, TRUE, FALSE,
           <<Driver(10, 5, <<<<"SOFT", 1>>, <<"MEDIUM", 12>>, <<"HARD", 35>>>>),
             Driver(2, 1, <<<<"MEDIUM", 1>>, <<"HARD", 30>>>>),
             Driver(8, 6, <<<<"SOFT", 1>>, <<"MEDIUM", 14>>, <<"HARD", 37>>>>),
             Driver(9, 7, <<<<"MEDIUM", 1>>>>)>>),
   Session(TRUE, FALSE, 30, FALSE, FALSE,
           <<Driver(12, 11, <<<<"HARD", 1>>, <<"MEDIUM", 33>>>>)>>)}

\* what fastf1 holds: MaxSeasons races of Monaco and of Monza, none of a
\* circuit it does not know
ArchiveInputs ==
  {[circuit \in Circuits |->
      IF circuit = "Monaco" THEN monaco
      ELSE IF circuit = "Monza" THEN monza
      ELSE [year \in 1..MaxSeasons |-> NotLoading]] :
     monaco \in [1..MaxSeasons -> SessionInputs],
     monza \in {[year \in 1..MaxSeasons |-> race] : race \in SessionInputs}}

ConditionsInputs ==
  {Conditions(Absent, Absent), Conditions(<<FALSE>>, <<35>>), Conditions(<<TRUE>>, Absent),
   Conditions(Absent, <<60>>)}

InitPoints ==
  /\ optimizer = NoOptimizer
  /\ TIRE_COMPOUNDS = TIRE_COMPOUNDS_DEFAULT
  /\ last = Outcome("none", "", FALSE, FALSE, "", NoSnapshot, NoRecommendation)
  /\ updates = 0
  /\ calls = 0
  /\ remembered = NotRemembered
  /\ peer = NoOptimizer
  /\ probe = NoProbe
  /\ session = NoSession
  /\ prompt = "none"
  /\ archive \in ArchiveInputs
  /\ historical_data = <<>>
  /\ answer = NoAnswer
  /\ points_calls = 0

GetPointsOptimizedStrategy(circuit, conditions) ==
  /\ points_calls < MaxPointsCalls
  /\ \E g \in {get_points_optimized_strategy(historical_data, circuit, conditions,
                                              archive[circuit])} :
       /\ historical_data' = g.historical_data
       /\ answer' = [op |-> "get", circuit |-> circuit, conditions |-> conditions,
                     raised |-> g.raised, result |-> g.result]
  /\ points_calls' = points_calls + 1
  /\ UNCHANGED <<optimizer, TIRE_COMPOUNDS, last, updates, calls, remembered, peer,
                 probe, session, prompt, archive>>

NextPoints ==
  \E circuit \in Circuits, conditions \in ConditionsInputs :
     GetPointsOptimizedStrategy(circuit, conditions)

SpecPoints == InitPoints /\ [][NextPoints]_vars

TypeOK ==
  /\ optimizer.exists \in BOOLEAN
  /\ DOMAIN TIRE_COMPOUNDS = DOMAIN TIRE_COMPOUNDS_DEFAULT
  /\ updates \in 0..MaxUpdates + 1
  /\ calls \in 0..Max(MaxCalls, MaxRepeats) + 1

---------------------------------------------------------------------------
(* Properties of generate_strategy *)

Returned == last.op = "generate" /\ ~last.raised
Raised == last.op = "generate" /\ last.raised

Characteristics == optimizer.track_characteristics
RemainingLaps == Characteristics.race_laps - last.arg.current_lap

\* previous stop laps ascending and each before the current lap
PreviousStopsValid(s) ==
  /\ \A i \in 1..Len(s.previous_stops) : s.previous_stops[i] < s.current_lap
  /\ \A i \in 1..Len(s.previous_stops) - 1 : s.previous_stops[i] <= s.previous_stops[i + 1]

\* the numeric fields of a snapshot are in range
FieldsInRange(s) ==
  /\ s.current_lap >= 0
  /\ s.current_position \in 1..20
  /\ s.tire_age >= 0
  /\ PreviousStopsValid(s)

\* the compounds of the compound table, and the compounds the data model names
TableCompounds == {"soft", "medium", "hard", "inter", "wet"}
NamedCompounds == {"soft", "medium", "hard", "intermediate", "wet"}

ValidSnapshot(s) == FieldsInRange(s) /\ s.current_compound \in TableCompounds

ScenarioA ==
  /\ optimizer.track_name = "monaco_gp"
  /\ last.arg = Snapshot(40, 5, "medium", 20, <<>>)

\* C1: for a valid snapshot during the race, 0 <= recommended_stops <=
\* max_stops - len(previous_stops); at Monaco, lap 40, position 5, medium
\* tyres aged 20 and no previous stop, recommended_stops is 0 or 1
C1_StopsWithinMaximum ==
  (Returned /\ ValidSnapshot(last.arg) /\ RemainingLaps > 0) =>
     /\ 0 <= last.result.recommended_stops
     /\ last.result.recommended_stops <= max_remaining_stops(Characteristics, last.arg.previous_stops)
     /\ ScenarioA => last.result.recommended_stops \in {0, 1}

\* C2: for a valid snapshot during the race, every pit window starts at or
\* after the snapshot's current lap
C2_WindowsStartAtOrAfterCurrentLap ==
  (Returned /\ ValidSnapshot(last.arg) /\ RemainingLaps > 0) =>
     \A i \in 1..Len(last.result.pit_windows) :
        last.result.pit_windows[i].window.start >= last.arg.current_lap

\* C3: for a valid snapshot, every pit window has
\* start <= optimal <= end <= race_laps - 2
C3_WindowsOrdered ==
  (Returned /\ ValidSnapshot(last.arg)) =>
     \A i \in 1..Len(last.result.pit_windows) :
        LET w == last.result.pit_windows[i].window
        IN  w.start <= w.optimal /\ w.optimal <= w.end /\ w.end <= Characteristics.race_laps - 2

\* a valid snapshot so late that the stint length is 0, with windows returned
C3_Witness ==
  /\ Returned /\ ValidSnapshot(last.arg)
  /\ RemainingLaps > 0
  /\ RemainingLaps < last.result.recommended_stops + 1
  /\ Len(last.result.pit_windows) >= 2

\* C4: whenever generate_strategy returns, there are exactly
\* recommended_stops pit windows, recommended_stops >= 0, and window i
\* carries stop number i
C4_OneWindowPerStop ==
  Returned =>
     /\ last.result.recommended_stops >= 0
     /\ Len(last.result.pit_windows) = last.result.recommended_stops
     /\ \A i \in 1..Len(last.result.pit_windows) :
           last.result.pit_windows[i].stop_number = i

\* a recommendation of three or more stops during the race
C4_Witness ==
  Returned /\ RemainingLaps > 0 /\ last.result.recommended_stops >= 3

\* C5 as stated: with current_lap >= race_laps, fields in range and one of
\* the named compounds, generate_strategy returns 0 stops, no window and
\* the rationale ["race is finished"]
C5_FinishedAsStated ==
  (last.op = "generate" /\ RemainingLaps <= 0 /\ FieldsInRange(last.arg)
     /\ last.arg.current_compound \in NamedCompounds \cup {NoCompound}) =>
     /\ ~last.raised
     /\ last.result = Recommendation(0, <<>>, [type |-> "list", lines |-> <<"race is finished">>])

\* C5 amended: with current_lap >= race_laps, fields in range and a compound
\* that is absent or a key of the compound table, generate_strategy returns
\* 0 stops, no window and the notes ['Race is finished']; with any other
\* compound it raises KeyError
C5_FinishedReturnsNoStops ==
  (last.op = "generate" /\ RemainingLaps <= 0 /\ FieldsInRange(last.arg)) =>
     IF last.arg.current_compound \in TableCompounds \cup {NoCompound}
       THEN ~last.raised /\ last.result = Recommendation(0, <<>>, [type |-> "list", lines |-> <<"Race is finished">>])
       ELSE last.raised /\ last.error = "KeyError"

\* a call on the last lap boundary (current_lap = race_laps) with worn tyres
C5_Witness ==
  /\ Returned /\ RemainingLaps = 0 /\ FieldsInRange(last.arg)
  /\ last.arg.current_compound = "soft" /\ last.arg.tire_age = 20
  /\ last.result.strategy_notes.type = "list"

\* C6: a snapshot with current_lap < 0, position outside 1..20, tire_age < 0
\* or a previous stop lap >= current_lap is rejected with an error
C6_OutOfRangeRejected ==
  (last.op = "generate" /\ ~FieldsInRange(last.arg)) => last.raised

\* C7 as stated: a named compound yields a recommendation and every other
\* identifier is rejected
C7_NamedCompoundsAccepted ==
  (last.op = "generate" /\ last.arg.current_compound # NoCompound) =>
     (~last.raised <=> last.arg.current_compound \in NamedCompounds)

\* C7 amended: generate_strategy accepts exactly the keys of the compound
\* table (soft, medium, hard, inter, wet): each yields a recommendation, and
\* any other identifier raises KeyError with nothing computed and the
\* compound table unchanged
C7_TableCompoundsAccepted ==
  [][(calls' = calls + 1 /\ last'.arg.current_compound # NoCompound) =>
       IF last'.arg.current_compound \in TableCompounds
         THEN ~last'.raised
         ELSE /\ last'.raised /\ last'.error = "KeyError"
              /\ last'.result = NoRecommendation
              /\ TIRE_COMPOUNDS' = TIRE_COMPOUNDS]_vars

\* the identifier inter is accepted
C7_Witness ==
  Returned /\ last.arg.current_compound = "inter" /\ RemainingLaps > 0

C9_RepeatedCallSameRecommendation ==
  (Returned /\ remembered.set /\ last.arg = remembered.arg) =>
     last.result = remembered.result

\* a second or later call repeats the first one, which named a compound with
\* worn tyres and got at least one stop
C9_Witness ==
  /\ Returned /\ calls >= 2 /\ remembered.set /\ last.arg = remembered.arg
  /\ last.arg.current_compound = "medium" /\ last.arg.tire_age = 20
  /\ last.result.recommended_stops >= 1

\* C10: a generate_strategy call leaves the optimizer's track characteristics
\* and every entry of TIRE_COMPOUNDS as they were
C10_GenerateStrategyChangesNothing ==
  [][calls' = calls + 1 =>
       /\ optimizer' = optimizer
       /\ TIRE_COMPOUNDS' = TIRE_COMPOUNDS]_vars
---------------------------------------------------------------------------
(* Properties of the characteristics and of update_characteristics *)

\* C12: once an optimizer is constructed, and after every
\* update_characteristics call, safety_car_probability, traffic_impact and
\* overtaking_difficulty lie in [0, 1] and race_laps > 0
C12_CharacteristicsInRange ==
  optimizer.exists =>
     /\ Ge(Characteristics.safety_car_probability, FromInt(0))
     /\ Le(Characteristics.safety_car_probability, FromInt(1))
     /\ Ge(Characteristics.traffic_impact, FromInt(0))
     /\ Le(Characteristics.traffic_impact, FromInt(1))
     /\ Ge(Characteristics.overtaking_difficulty, FromInt(0))
     /\ Le(Characteristics.overtaking_difficulty, FromInt(1))
     /\ Characteristics.race_laps > 0

\* C14: during the race the notes hold the safety car advisory exactly when
\* safety_car_probability >= 0.4
C14_SafetyCarAdvisory ==
  (Returned /\ RemainingLaps > 0) =>
     ((\E i \in 1..Len(last.result.strategy_notes.lines) :
          last.result.strategy_notes.lines[i] = "- Keep gaps under 20s for safety car")
      <=> Ge(Characteristics.safety_car_probability, Milli(400)))

\* a recommendation with the advisory at a probability of exactly 0.4
C14_Witness ==
  /\ Returned /\ RemainingLaps > 0
  /\ Characteristics.safety_car_probability = Milli(400)
  /\ \E i \in 1..Len(last.result.strategy_notes.lines) :
        last.result.strategy_notes.lines[i] = "- Keep gaps under 20s for safety car"

\* C15: an update_characteristics call whose tire data maps compounds to
\* records (with any of degradation, avg_tire_life, fastest_lap missing) and
\* whose weather record lacks any of its fields does not raise
C15_PartialDataNeverRaises ==
  [][updates' = updates + 1 =>
       \A tire_data \in {td \in TireDataInputs :
                            \A i \in 1..Len(td) : td[i].kind = "dict"},
          weather_data \in WeatherInputs :
          UpdateCharacteristics(tire_data, weather_data) => ~last'.raised]_vars

\* C22: an update_characteristics call with weather data that returns
\* leaves safety_car_probability = min(1, p * r * h * t), p the value before,
\* r = 1.5 under rainfall, h = 1.2 above 40 degrees, t = 1.3 on a street and
\* 1.1 on a high_speed circuit (each 1 otherwise); it is at most 1 and at
\* least p
C22_SafetyCarProbabilityUpdate ==
  [][updates' = updates + 1 =>
       \A tire_data \in TireDataInputs, weather_data \in WeatherInputs \ {NoWeather} :
          (UpdateCharacteristics(tire_data, weather_data) /\ ~last'.raised) =>
             LET p == optimizer.track_characteristics.safety_car_probability
                 r == IF weather_data.rainfall = <<TRUE>> THEN Milli(1500) ELSE FromInt(1)
                 h == IF weather_data.track_temp # Absent
                         /\ Gt(weather_data.track_temp[1], FromInt(40))
                        THEN Milli(1200) ELSE FromInt(1)
                 t == IF optimizer.track_characteristics.track_type = "street"
                        THEN Milli(1300)
                      ELSE IF optimizer.track_characteristics.track_type = "high_speed"
                        THEN Milli(1100)
                      ELSE FromInt(1)
                 after == optimizer'.track_characteristics.safety_car_probability
             IN  /\ after = RMin(FromInt(1), Mul(Mul(Mul(p, r), h), t))
                 /\ Le(after, FromInt(1))
                 /\ Ge(after, p)]_vars

\* an update under weather data on a street circuit that ran into the cap
C22_Witness ==
  /\ last.op = "update" /\ ~last.raised
  /\ Characteristics.track_type = "street"
  /\ Characteristics.safety_car_probability = FromInt(1)

\* C23: an update_characteristics call that returns sets, for a compound
\* named in the tire data with an average life a, max_life = 1.2 * a and
\* min_life = max(5, 0.7 * a); a compound not named, or named without an
\* average life, keeps its min_life and max_life (whether the call returns
\* or raises)
C23_TableFromObservations ==
  [][updates' = updates + 1 =>
       \A tire_data \in {td \in TireDataInputs :
                            \A i \in 1..Len(td) : td[i].kind = "dict"},
          weather_data \in WeatherInputs :
          UpdateCharacteristics(tire_data, weather_data) =>
             \A c \in DOMAIN TIRE_COMPOUNDS :
                IF \E i \in 1..Len(tire_data) :
                      tire_data[i].key = c /\ tire_data[i].avg_tire_life # Absent
                  THEN last'.raised \/
                       \E i \in 1..Len(tire_data) :
                          /\ tire_data[i].key = c /\ tire_data[i].avg_tire_life # Absent
                          /\ TIRE_COMPOUNDS'[c].max_life =
                                Mul(Milli(1200), tire_data[i].avg_tire_life)
                          /\ TIRE_COMPOUNDS'[c].min_life =
                                RMax(FromInt(5), Mul(Milli(700), tire_data[i].avg_tire_life))
                  ELSE /\ TIRE_COMPOUNDS'[c].max_life = TIRE_COMPOUNDS[c].max_life
                       /\ TIRE_COMPOUNDS'[c].min_life = TIRE_COMPOUNDS[c].min_life]_vars

\* C27: once an optimizer is constructed, and after every
\* update_characteristics call, every compound of the table has
\* min_life <= max_life
C27_MinLifeWithinMaxLife ==
  optimizer.exists =>
     \A c \in DOMAIN TIRE_COMPOUNDS :
        Le(TIRE_COMPOUNDS[c].min_life, TIRE_COMPOUNDS[c].max_life)

\* C28: a constructor call for a catalog track returns even when the load
\* or the update inside it raises, and then the characteristics are the
\* catalog's and the compound table is as it was defined
C28_ConstructionKeepsDefaults ==
  (last.op = "construct" /\ lower(last.name) \in DOMAIN TRACK_CONFIGS) =>
     /\ ~last.raised
     /\ optimizer.exists
     /\ Characteristics = load_track_config(lower(last.name))
     /\ TIRE_COMPOUNDS = TIRE_COMPOUNDS_DEFAULT

\* a construction on a street circuit during which the session loaded
\* and update_characteristics was called
C28_Witness ==
  /\ last.op = "construct" /\ last.load_attempted /\ ~last.raised
  /\ optimizer.exists /\ Characteristics.track_type = "street"

---------------------------------------------------------------------------
(* Properties of the interactive loop *)

\* C30: display_strategy renders every result of generate_strategy: in the
\* loop an accepted race-details entry (here with a compound of the table,
\* so that generate_strategy returns) is followed by the displayed strategy
\* and the track prompt, and the loop ends only on 'exit' or 'quit'
C30_DisplayRendersResult ==
  /\ (last.op = "details" /\ last.error # "ValueError"
         /\ ~unknown_compound(TIRE_COMPOUNDS, last.arg.current_compound)) =>
        ~last.raised /\ prompt = "track"
  /\ prompt \in {"track", "details"} \/ (prompt = "ended" /\ last.name \in {"exit", "quit"})

---------------------------------------------------------------------------
(* Properties of the PointsOptimizer *)

\* the points-scoring results the last call analysed
Analysed == points_strategies(historical_data, answer.conditions)

\* C25: every StrategyResult recorded by load_historical_data has its
\* strategy_success between 0 and 1
C25_SuccessInUnitInterval ==
  \A i \in DOMAIN historical_data :
     /\ Ge(historical_data[i].strategy_success, FromInt(0))
     /\ Le(historical_data[i].strategy_success, FromInt(1))

\* C26: get_points_optimized_strategy never raises; it returns a record
\* with 'error' or a full record whose number of stop_windows is
\* recommended_stops, the most frequent stop count of the results analysed
C26_ErrorOrFullStrategy ==
  answer.op = "get" =>
    /\ ~answer.raised
    /\ \/ DOMAIN answer.result = {"error"}
       \/ /\ DOMAIN answer.result =
               {"circuit", "strategy_summary", "stop_windows", "historical_insights"}
          /\ Len(answer.result.stop_windows) = answer.result.strategy_summary.recommended_stops
          /\ \A i \in DOMAIN Analysed :
                stop_count(Analysed, Analysed[i].stops) <=
                  stop_count(Analysed, answer.result.strategy_summary.recommended_stops)

\* a full record from results with different stop counts, the most frequent
\* one not the smallest
C26_Witness ==
  /\ answer.op = "get"
  /\ "error" \notin DOMAIN answer.result
  /\ answer.result.strategy_summary.recommended_stops >= 1
  /\ Len(answer.result.stop_windows) = answer.result.strategy_summary.recommended_stops
  /\ \E i \in DOMAIN Analysed :
        Analysed[i].stops < answer.result.strategy_summary.recommended_stops

\* C29: the strategy returned for a circuit is computed from the historical
\* results of that circuit only, each counted once: it is what an optimizer
\* without history returns for the circuit
C29_HistoryOfTheCircuit ==
  answer.op = "get" =>
    answer.result =
      get_points_optimized_strategy(<<>>, answer.circuit, answer.conditions,
                                    archive[answer.circuit]).result

---------------------------------------------------------------------------
(* Properties of the pit windows *)

\* C19: for a valid snapshot and at least one stop, the optimal lap of stop
\* i is min(race_laps - 2, current_lap + stint_length * i) with
\* stint_length = remaining_laps div (recommended_stops + 1)
C19_OptimalFromCurrentLap ==
  (Returned /\ ValidSnapshot(last.arg) /\ last.result.recommended_stops >= 1) =>
     \A i \in 1..Len(last.result.pit_windows) :
        last.result.pit_windows[i].window.optimal =
          Min(Characteristics.race_laps - 2,
              last.arg.current_lap
                + (RemainingLaps \div (last.result.recommended_stops + 1)) * i)

C21_CompoundRule ==
  (Returned /\ ValidSnapshot(last.arg) /\ last.result.recommended_stops >= 1) =>
     LET n == last.result.recommended_stops
         after_optimal == Characteristics.race_laps - last.result.pit_windows[n].window.optimal
         after_stints == RemainingLaps - (RemainingLaps \div (n + 1)) * n
     IN  /\ \A i \in 1..(n - 1) : last.result.pit_windows[i].compound = "hard"
         /\ \A i \in 1..n : last.result.pit_windows[i].compound \in {"soft", "medium", "hard"}
         /\ Characteristics.track_type = "street" =>
               last.result.pit_windows[n].compound = "soft"
         /\ (Characteristics.track_type # "street" /\ after_optimal <= 15 /\ after_stints <= 15) =>
               last.result.pit_windows[n].compound = "soft"
         /\ (Characteristics.track_type # "street" /\ after_optimal > 15 /\ after_stints > 15) =>
               last.result.pit_windows[n].compound = "medium"

---------------------------------------------------------------------------
(* Properties across instances *)

\* C11: whatever update_characteristics calls are made on a second
\* instance, a recommendation of the first instance is the one it returns
\* for the same snapshot when the second instance is never adjusted
C11_PeerUpdatesLeaveRecommendation ==
  Returned =>
     last.result =
       generate_strategy(Characteristics, TIRE_COMPOUNDS_DEFAULT, last.arg).result

---------------------------------------------------------------------------
(* Properties of the stop count rules *)

\* C13: for tyre ages 0 <= a1 <= a2 and everything else the same,
\* _calculate_optimal_stops returns at a2 at least what it returns at a1
C13_MonotoneInTireAge ==
  (probe.fn = "calculate" /\ probe.applied
     /\ 0 <= probe.tire_age /\ probe.tire_age <= probe.older_age) =>
     probe.stops_older >= probe.stops

\* an older tyre that costs one stop more than the fresher one
C13_Witness ==
  /\ probe.fn = "calculate" /\ probe.applied
  /\ 0 < probe.tire_age /\ probe.tire_age < probe.older_age
  /\ probe.stops_older = probe.stops + 1

\* C16: with everything else the same, a tire_degradation above 1.2 gives
\* an estimate one higher, and one below 0.8 an estimate one lower (not
\* below 0), than a tire_degradation within [0.8, 1.2]
C16_DegradationCounts ==
  (probe.fn = "estimate" /\ probe.applied) =>
     probe.stops =
       IF Gt(probe.tire_degradation, Milli(1200)) THEN probe.stops_nominal + 1
       ELSE IF Lt(probe.tire_degradation, Milli(800)) THEN Max(0, probe.stops_nominal - 1)
       ELSE probe.stops_nominal

\* C17: for remaining_laps >= 1 and tire_age >= 0, _calculate_optimal_stops
\* is remaining_laps div 20, plus 1 exactly when a compound is given,
\* tire_age > 0 and max(0, max_life - tire_age) < 0.7 * remaining_laps, then
\* plus 1 above an evolution of 0.012 or minus 1 (not below 0) under 0.008,
\* then plus 1 above a probability of 0.4 or minus 1 (not below 0) under 0.2
C17_StopCountRule ==
  (probe.fn = "calculate" /\ probe.applied
     /\ probe.remaining_laps >= 1 /\ probe.tire_age >= 0) =>
     LET base == probe.remaining_laps \div 20
         worn == /\ probe.current_compound # NoCompound
                 /\ probe.tire_age > 0
                 /\ Lt(RMax(FromInt(0),
                            Sub(TIRE_COMPOUNDS[probe.current_compound].max_life,
                                FromInt(probe.tire_age))),
                       Mul(Milli(700), FromInt(probe.remaining_laps)))
         tyre == IF worn THEN base + 1 ELSE base
         evolved == IF Gt(probe.track_evolution, Milli(12)) THEN tyre + 1
                    ELSE IF Lt(probe.track_evolution, Milli(8)) THEN Max(0, tyre - 1)
                    ELSE tyre
     IN  probe.stops =
           IF Gt(probe.safety_car_prob, Milli(400)) THEN evolved + 1
           ELSE IF Lt(probe.safety_car_prob, Milli(200)) THEN Max(0, evolved - 1)
           ELSE evolved

\* the rule at its breakpoints: evolution 0.012 and probability 0.4 exactly,
\* a worn tyre, and the count is the base plus the tyre stop alone
C17_Witness ==
  /\ probe.fn = "calculate" /\ probe.applied
  /\ probe.remaining_laps = 45 /\ probe.current_compound = "medium" /\ probe.tire_age = 10
  /\ probe.track_evolution = Milli(12) /\ probe.safety_car_prob = Milli(400)
  /\ probe.stops = 3

\* C18: _adjust_strategy_for_position applies the traffic rule, then the
\* overtaking rule, then the position rule, each decrement stopping at 0,
\* so the result is never negative
C18_AdjustInOrder ==
  (probe.fn = "adjust" /\ probe.applied) =>
     LET traffic == IF Gt(probe.traffic_impact, Milli(600)) THEN probe.base_stops + 1
                    ELSE IF Lt(probe.traffic_impact, Milli(400))
                      THEN Max(0, probe.base_stops - 1)
                    ELSE probe.base_stops
         overtaking == IF Gt(probe.overtaking_difficulty, Milli(700)) THEN traffic + 1
                       ELSE IF Lt(probe.overtaking_difficulty, Milli(500))
                         THEN Max(0, traffic - 1)
                       ELSE traffic
     IN  /\ probe.stops >= 0
         /\ probe.stops = IF probe.current_position > 10 THEN overtaking + 1
                          ELSE IF probe.current_position < 5 THEN Max(0, overtaking - 1)
                          ELSE overtaking

\* base 0, traffic 0.3, overtaking 0.8, position 7 gives 1: the decrement
\* the floor absorbed does not cancel the later increment
C18_Witness ==
  /\ probe.fn = "adjust" /\ probe.applied
  /\ probe.base_stops = 0 /\ probe.traffic_impact = Milli(300)
  /\ probe.overtaking_difficulty = Milli(800) /\ probe.current_position = 7
  /\ probe.stops = 1

====
